---- MODULE Spec2Model ----
(***************************************************************************)
(* Authentication / session core of the contacts backend:                  *)
(*   src/src/routes/auth.py, src/src/routes/users.py,                      *)
(*   src/src/services/auth.py, src/src/repository/users.py,                *)
(*   src/src/entity/models.py, src/src/services/email.py; and its contacts *)
(*   routes: src/src/routes/contacts.py, src/src/repository/contacts.py,   *)
(*   src/src/schemas/contact.py.                                           *)
(*                                                                         *)
(* A request handler is a coroutine: it runs until it awaits the database  *)
(* (a query, a commit, a refresh), and other requests and the clock move   *)
(* on while it is suspended.  Each action below is one such stretch of a   *)
(* handler: the effect of the database operation it was suspended on and   *)
(* the code up to the next one.  The redis client is the blocking one, its *)
(* calls do not suspend the handler.                                       *)
(*                                                                         *)
(* Spec         : login, refresh_token, GET /users/me, request_email.      *)
(* SpecUsers    : GET /users/me, PATCH /users/avatar, login.               *)
(* SpecAccount  : signup, confirmed_email, request_email, login.           *)
(* SpecSession  : signup, login, refresh_token from a table without tokens.*)
(* SpecCache    : get_current_user with a redis that may fail.             *)
(* SpecSignup   : signup requests alone; SpecRecovery: password_recovery.  *)
(* SpecCalls    : direct calls of Auth's functions.                        *)
(* SpecContacts : the contacts routes; SpecBirthdays: /birthdays.          *)
(*                                                                         *)
(* GET /users/me, PATCH /users/avatar and POST /contacts/ are rate limited *)
(* (fastapi_limiter): the limiter is the first dependency of the route and *)
(* answers 429 once its redis key has reached the limit of the window.     *)
(*                                                                         *)
(* The users table and the tokens already handed to clients outlive the    *)
(* process, so Init is any table content the schema allows whose stored    *)
(* refresh tokens are tokens the service signed.                           *)
(***************************************************************************)
EXTENDS Integers, FiniteSets, Sequences, TLC

(* ------------------------------ bounds --------------------------------- *)
MaxTicks == 1
MaxIssued == 4

(* ------------------------- program constants --------------------------- *)
AccessTTL == 900
RefreshTTL == 604800
EmailTTL == 86400
CacheTTL == 300

HTTP_201 == 201
HTTP_400 == 400
HTTP_401 == 401
HTTP_409 == 409
HTTP_422 == 422

(* ------------------------------ inputs --------------------------------- *)
Emails == {"a@x.com"}
\* An address that never signs up (login attempts for an absent email).
Strangers == {"z@x.com"}
\* A password is its first 72 bytes (head) and whatever follows (tail);
\* UserSchema admits passwords of exactly 8 characters.
Pw(s) == [head |-> s, tail |-> ""]
Passwords == {Pw("passw0rd"), Pw("12345678")}
\* pwd_context.hash draws a fresh salt on every call: two hashes of one
\* password differ when their salts do.
Salts == {1, 2}
Avatars == {"url1"}
\* Clock advances: to the expiry instant of a cache entry written now
\* (redis still serves it), one second past it (redis has dropped it), and
\* one second past the lifetime of an access token, of an email token and
\* of a refresh token.
Deltas == {CacheTTL, CacheTTL + 1, AccessTTL + 1, EmailTTL + 1,
           RefreshTTL + 1}
Tasks == {1, 2}

(* --------------------------- value shapes ------------------------------ *)
\* A signed JWT is determined by its claims (the key and the algorithm are
\* fixed); iat and exp are whole seconds.  scope "" is a token without a
\* scope claim (create_email_token).
NoToken == [sub |-> "", scope |-> "null", iat |-> 0 - 1, exp |-> 0 - 1]
\* A string that is not a JWT signed with SECRET_KEY.
BadToken == [sub |-> "", scope |-> "garbage", iat |-> 0 - 1, exp |-> 0 - 1]

\* A well-formed JWT signed with another key.
ForgedToken == [sub |-> "a@x.com", scope |-> "forged", iat |-> 0 - 1,
                exp |-> 0 - 1]

NoHash == [salt |-> 0, pw |-> ""]
NoUser == [present |-> FALSE, password |-> NoHash, refresh_token |-> NoToken,
           confirmed |-> FALSE, avatar |-> ""]
NoEntry == [present |-> FALSE, value |-> NoUser, expire_at |-> 0]

\* SQL NULL / Python None in a text column of the contacts table.
None == "<None>"
NoBody == [first_name |-> "", last_name |-> "", email |-> "", phone |-> "",
           birthday |-> <<0, 0, 0>>, other |-> ""]
NoContact == [id |-> 0, user |-> "", first_name |-> "", last_name |-> "",
              email |-> "", phone |-> "", birthday |-> <<0, 0, 0>>,
              other |-> ""]

\* The expiry of a key that was written without one (redis reports its TTL
\* as -1): the key stays until it is overwritten or deleted.
NoExpiry == 0 - 1

(* --------------------------- PasswordHasher ---------------------------- *)
\* pwd_context.hash with the bcrypt scheme: a salted one-way hash, the salt
\* is drawn per call; bcrypt digests the first 72 bytes of the password.
get_password_hash(password, salt) == [salt |-> salt, pw |-> password.head]

\* pwd_context.verify: re-hash the plain password with the salt of the
\* stored hash and compare.
verify_password(plain_password, hashed_password) ==
    get_password_hash(plain_password, hashed_password.salt) = hashed_password

\* What the installed bcrypt does with a password of more than 72 bytes is
\* not fixed by the repository: releases before 5.0 digest the first 72
\* bytes and drop the rest, later releases refuse the password.
Builds == {"truncates", "raises"}

\* pwd_context.hash / pwd_context.verify raise ValueError for such a
\* password under a bcrypt that refuses it.
ValueError(password, build) == password.tail # "" /\ build = "raises"

(* ------------------------------ TokenCodec ----------------------------- *)
\* jwt.encode of the claims: the token string is a function of the claims.
jwt_encode(sub, scope, iat, exp) ==
    [sub |-> sub, scope |-> scope, iat |-> iat, exp |-> exp]

\* jwt.decode raises JWTError for an unparsable / wrongly signed token and
\* for a token whose exp lies before the current time.
JWTError(token, t) ==
    \/ token = BadToken
    \/ token = ForgedToken
    \/ token = NoToken
    \/ token.exp < t

create_access_token_m(sub, t) ==
    jwt_encode(sub, "refresh_token", t, t + AccessTTL)

\* dict.update: the keys of claims replace or extend those of data.
dict_update(data, claims) ==
    [k \in DOMAIN data \cup DOMAIN claims |->
        IF k \in DOMAIN claims THEN claims[k] ELSE data[k]]

\* expires_delta is <<>> when the argument is not given and <<d>> when it
\* is; "if expires_delta:" is false for None and for 0.
create_access_token_with(data, expires_delta, t) ==
    LET expire == IF expires_delta # <<>> /\ expires_delta[1] # 0
                  THEN t + expires_delta[1]
                  ELSE t + AccessTTL
    IN  dict_update(data, [exp |-> expire, scope |-> "access_token",
                           iat |-> t])

create_refresh_token_with(data, expires_delta, t) ==
    LET expire == IF expires_delta # <<>> /\ expires_delta[1] # 0
                  THEN t + expires_delta[1]
                  ELSE t + RefreshTTL
    IN  dict_update(data, [exp |-> expire, scope |-> "refresh_token",
                           iat |-> t])

\* The routes call both with data = {"sub": email} and no expires_delta.
create_access_token(sub, t) ==
    create_access_token_with([sub |-> sub], <<>>, t)

create_refresh_token(sub, t) ==
    create_refresh_token_with([sub |-> sub], <<>>, t)

create_email_token(sub, t) ==
    jwt_encode(sub, "", t, t + EmailTTL)

decode_refresh_token_m(token, t) ==
    IF JWTError(token, t) THEN "jwt"
    ELSE IF token.scope = "" THEN "keyerror"
    ELSE IF token.scope = "refresh_token" THEN "ok"
    ELSE "jwt"

\* Outcome of decode_refresh_token: "ok" (the subject is token.sub),
\* "scope" (401 Invalid scope for token), "jwt" (401 Could not validate
\* credentials), "keyerror" (payload['scope'] or payload['sub'] raises
\* KeyError).
decode_refresh_token(token, t) ==
    IF JWTError(token, t) THEN "jwt"
    ELSE IF token.scope = "" THEN "keyerror"
    ELSE IF token.scope = "refresh_token"
    THEN IF "sub" \in DOMAIN token THEN "ok" ELSE "keyerror"
    ELSE "scope"

(* ------------------------------ state ---------------------------------- *)
VARIABLES
    users,       \* the users table, keyed by the unique email column
    cache,       \* the redis identity cache: email -> pickled user + expiry
    now,         \* the clock, in seconds
    ticks,       \* number of clock advances so far
    issued,      \* tokens the service has signed and handed to clients
    lastIssued,  \* per email, the refresh token issued last
    resp,        \* the last request that ended and its response
    tasks,       \* the requests in flight: each one's position (the await
                 \* it is suspended at) and its local variables
    revoked,     \* history: for each principal whose stored token reuse
                 \* detection cleared, with no token stored since, the
                 \* stored value that was cleared
    call,        \* a direct call of a function of Auth: arguments, result
    contacts,    \* the contacts table: a set of rows, each with its owner
    contact_seq, \* the last id the contacts table's id sequence gave out
    rows,        \* the users table row by row (id, email, password)
    user_seq,    \* the last id the users table's id sequence gave out
    limiter      \* the rate limiter's redis keys: per limited route the
                 \* requests admitted in the running window and its expiry

vars == <<users, cache, now, ticks, issued, lastIssued, resp, tasks,
          revoked, call, rows, user_seq,
          contacts, contact_seq, limiter>>

NoResp == [op |-> "none", status |-> 0, detail |-> "", email |-> "",
           token |-> NoToken, access_token |-> NoToken,
           refresh_token |-> NoToken, user |-> NoUser, lookups |-> 0,
           cache_reads |-> 0, was_revoked |-> FALSE]

NoCall == [fn |-> "none"]

\* A request slot with no request in it. The fields of a request in flight
\* are the handler's locals that its later steps read: the route, the
\* presented token, the email of the principal it works on or acts for,
\* the hash signup has computed, the row its session has loaded (the ORM
\* object `user`), the tokens refresh_token has signed, the url of the
\* uploaded avatar, and for the contacts routes the id and the body of the
\* request and the contact row the session has loaded.
IdleTask == [pc |-> "idle", route |-> "", token |-> NoToken, email |-> "",
             password |-> NoHash, user |-> NoUser, access_token |-> NoToken,
             refresh_token |-> NoToken, url |-> "", contact_id |-> 0,
             body |-> NoBody, contact |-> NoContact]

(* --------------------------- users repository -------------------------- *)
\* select(User).filter_by(email=email) ... scalar_one_or_none()
get_user_by_email_coupled(us, email) ==
    IF email \in DOMAIN us /\ us[email].refresh_token # NoToken
    THEN us[email]
    ELSE NoUser

get_user_by_email_m(us, email) ==
    IF email \in DOMAIN us /\ us[email].present
    THEN us[email]
    ELSE [NoUser EXCEPT !.present = TRUE]

get_user_by_email(us, email) ==
    IF email \in DOMAIN us THEN us[email] ELSE NoUser

\* The unique constraint on users.email: the commit of a second row for an
\* email raises IntegrityError.
IntegrityError(us, email) == get_user_by_email(us, email).present

\* db.add(new_user); await db.commit(): the row is inserted unless the
\* commit raises, and then the table stays as it was.
create_user(us, email, hashed) ==
    IF IntegrityError(us, email)
    THEN us
    ELSE [e \in DOMAIN us \cup {email} |->
            IF e = email
            THEN [present |-> TRUE, password |-> hashed,
                  refresh_token |-> NoToken, confirmed |-> FALSE,
                  avatar |-> ""]
            ELSE us[e]]

\* `user.field = value` on the result of get_user_by_email: for None the
\* assignment raises AttributeError and nothing is committed.
AttributeError(us, email) == ~get_user_by_email(us, email).present

\* await db.commit() after `user.<column> = value`: the session compares the
\* assigned value with the one it loaded for this request and emits
\* UPDATE users SET <column> only when the two differ; the row as other
\* requests have changed it since is not looked at.
flush(us, email, loaded, column, value) ==
    IF value = loaded[column] THEN us
    ELSE [us EXCEPT ![email][column] = value]

update_token_m(us, email, loaded, token) == us

\* update_token(user, token, db): user.refresh_token = token; db.commit()
update_token(us, email, loaded, token) ==
    IF AttributeError(us, email) THEN us
    ELSE flush(us, email, loaded, "refresh_token", token)

repo_confirmed_email_m(us, email, loaded) == us

\* user.confirmed = True; db.commit()
repo_confirmed_email(us, email, loaded) ==
    IF AttributeError(us, email) THEN us
    ELSE flush(us, email, loaded, "confirmed", TRUE)

\* user.avatar = avatar_url; db.commit()
update_avatar_url(us, email, loaded, url) ==
    IF AttributeError(us, email) THEN us
    ELSE flush(us, email, loaded, "avatar", url)

\* update_password(email, password, db): its query hands out the row
\* `loaded` (the object the session holds already, when it holds one);
\* user.password = password; await db.commit() on the table as it is then.
update_password(us, email, loaded, hashed) ==
    IF ~loaded.present THEN us
    ELSE flush(us, email, loaded, "password", hashed)

\* Column(String(150), index=True, unique=True): the table refuses a second
\* row with the email of an existing row.
unique_violation(rs, email) == \E r \in rs : r.email = email

\* The row INSERT takes its id from the sequence of the primary key; the
\* sequence moves on also when the INSERT is refused.
insert_user(rs, id, email, hashed) ==
    rs \cup {[id |-> id, email |-> email, password |-> hashed]}

(* ----------------------------- RateLimiter ----------------------------- *)
\* dependencies=[Depends(RateLimiter(times=..., seconds=...))] of a route:
\* the limiter keeps one redis key per client address and route, the
\* number of requests it has admitted in the running window. The requests
\* of the model come from one client address.
Limited == {"me", "avatar", "create_contact"}

\* GET /users/me and PATCH /users/avatar: RateLimiter(times=1, seconds=2);
\* POST /contacts/: RateLimiter(times=2, seconds=5).
times(route) == IF route = "create_contact" THEN 2 ELSE 1
seconds(route) == IF route = "create_contact" THEN 5 ELSE 2

\* No key: no request admitted in a running window.
NoWindow == [count |-> 0, expire_at |-> 0]

\* The key has reached the limit: the request is answered 429 before any
\* other dependency of the route runs.
TooManyRequests(l, route) ==
    /\ route \in Limited
    /\ l[route].count >= times(route)

\* An admitted request: the first of a window writes the key with the
\* expiry of the window, a later one increments it.
RateLimiter(l, route, t) ==
    IF route \notin Limited THEN l
    ELSE IF l[route].count > 0
    THEN [l EXCEPT ![route].count = @ + 1]
    ELSE [l EXCEPT ![route] = [count |-> 1,
                               expire_at |-> t + seconds(route)]]

(* ------------------------------- Init ---------------------------------- *)
InitUser(e) ==
    { [present |-> TRUE, password |-> get_password_hash(Pw("passw0rd"), 1),
       refresh_token |-> r, confirmed |-> FALSE, avatar |-> ""] :
         r \in {NoToken, create_refresh_token(e, 0)} }
    \cup {NoUser}

\* The rows of a table: one INSERT per email that has a principal.
RECURSIVE rows_of(_, _)
rows_of(us, es) ==
    IF es = {} THEN {}
    ELSE LET e == CHOOSE x \in es : TRUE
             rest == rows_of(us, es \ {e})
         IN  insert_user(rest, Cardinality(rest) + 1, e, us[e].password)

table_rows(us) == rows_of(us, { e \in DOMAIN us : us[e].present })

Init ==
    /\ users \in { f \in [Emails -> UNION {InitUser(e) : e \in Emails}] :
                     \A e \in Emails : f[e] \in InitUser(e) }
    /\ cache = [e \in Emails |-> NoEntry]
    /\ now = 0
    /\ ticks = 0
    /\ issued = { users[e].refresh_token : e \in Emails } \ {NoToken}
    /\ lastIssued = [e \in Emails |-> users[e].refresh_token]
    /\ resp = NoResp
    /\ tasks = [i \in Tasks |-> IdleTask]
    /\ revoked = {}
    /\ call = NoCall
    /\ rows = table_rows(users)
    /\ user_seq = Cardinality(table_rows(users))
    /\ contacts = {}
    /\ contact_seq = 0
    /\ limiter = [r \in Limited |-> NoWindow]

\* The principals whose stored refresh token reuse detection has cleared,
\* with no refresh token written to their row since.
RevokedEmails == { r.email : r \in revoked }

revoke(email, stored) ==
    IF email \in RevokedEmails
    THEN revoked
    ELSE revoked \cup {[email |-> email, cleared |-> stored]}

unrevoke(email) == { r \in revoked : r.email # email }

(* ------------------------------- clock --------------------------------- *)
\* redis drops an entry once the clock has passed its expiry time; at the
\* instant of the expiry time the key is still served.
cache_expire(c, t) ==
    [e \in DOMAIN c |-> IF /\ c[e].present
                           /\ c[e].expire_at # NoExpiry
                           /\ c[e].expire_at < t
                        THEN NoEntry ELSE c[e]]

\* redis drops the key of a window once the clock has passed its expiry.
limiter_expire(l, t) ==
    [r \in DOMAIN l |-> IF l[r].count > 0 /\ l[r].expire_at < t
                        THEN NoWindow ELSE l[r]]

\* Time passes, also while requests are suspended at an await.
Tick(d) ==
    /\ ticks < MaxTicks
    /\ now' = now + d
    /\ ticks' = ticks + 1
    /\ cache' = cache_expire(cache, now + d)
    /\ limiter' = limiter_expire(limiter, now + d)
    /\ UNCHANGED <<users, issued, lastIssued, resp, tasks, revoked, call,
                   rows, user_seq, contacts, contact_seq>>

\* The tokens the service signed for an account whose row has since been
\* removed from the table.
Orphans ==
    { create_access_token(e, 0) : e \in Strangers }
       \cup { create_refresh_token(e, 0) : e \in Strangers }

\* Tokens a client can present: the ones the service signed, or garbage.
Presentable == issued \cup Orphans \cup {BadToken}

\* The tokens signed so far: the ones handed out and the ones a request in
\* flight holds for its response.
Signed ==
    issued \cup (UNION { {tasks[i].access_token, tasks[i].refresh_token} :
                           i \in Tasks } \ {NoToken})

\* The service signs tokens without limit; exploration stops signing new
\* ones once MaxIssued distinct tokens exist.
CanIssue == Cardinality(Signed') <= MaxIssued

(* ------------------------- requests in flight -------------------------- *)
\* The event loop runs one handler at a time and switches at an await of
\* the database; a new request takes the lowest free slot.
Free(i) ==
    /\ tasks[i].pc = "idle"
    /\ \A j \in Tasks : j < i => tasks[j].pc # "idle"

\* The request of slot i has been answered.
finish(i) == [tasks EXCEPT ![i] = IdleTask]

\* A request that is answered at its first resumption is admitted while a
\* slot is free: at most as many are in flight as there are slots.
Admitted == \E i \in Tasks : tasks[i].pc = "idle"

(* ------------------------------ signup --------------------------------- *)
\* await get_user_by_email; 409 when a row is found; else the password of
\* the body is replaced by its hash and create_user is awaited.
signup_read(i, email, password, salt) ==
    LET body == [NoResp EXCEPT !.op = "signup", !.email = email]
    IN  /\ Free(i)
        /\ IF get_user_by_email(users, email).present
           THEN /\ resp' = [body EXCEPT !.status = HTTP_409,
                                        !.detail = "Account already exists"]
                /\ UNCHANGED tasks
           ELSE /\ tasks' = [tasks EXCEPT ![i] =
                      [IdleTask EXCEPT
                         !.pc = "checked", !.route = "signup",
                         !.email = email,
                         !.password = get_password_hash(password, salt)]]
                /\ UNCHANGED resp
        /\ UNCHANGED <<users, cache, now, ticks, issued, lastIssued, revoked,
                       call, rows, user_seq, contacts, contact_seq, limiter>>

\* create_user: db.add(new_user); await db.commit(). The commit raises
\* IntegrityError when the email is taken by now; nothing handles it.
signup_commit(i) ==
    LET email == tasks[i].email
        body == [NoResp EXCEPT !.op = "signup", !.email = email]
    IN  /\ tasks[i].pc = "checked"
        /\ user_seq' = user_seq + 1
        /\ IF unique_violation(rows, email)
           THEN /\ resp' = [body EXCEPT !.status = 500,
                                        !.detail = "IntegrityError"]
                /\ tasks' = finish(i)
                /\ UNCHANGED <<users, rows>>
           ELSE /\ rows' = insert_user(rows, user_seq + 1, email,
                                       tasks[i].password)
                /\ users' = create_user(users, email, tasks[i].password)
                /\ tasks' = [tasks EXCEPT ![i].pc = "committed"]
                /\ UNCHANGED resp
        /\ UNCHANGED <<cache, now, ticks, issued, lastIssued, revoked, call,
                       contacts, contact_seq, limiter>>

\* await db.refresh(new_user): the row as the table holds it now is the
\* body of the 201 response; bt.add_task has queued send_email, which runs
\* once the response has been sent.
signup_refresh(i) ==
    LET email == tasks[i].email
        body == [NoResp EXCEPT !.op = "signup", !.email = email]
    IN  /\ tasks[i].pc = "committed"
        /\ resp' = [body EXCEPT !.status = HTTP_201,
                                !.user = get_user_by_email(users, email)]
        /\ tasks' = [tasks EXCEPT ![i].pc = "mailing"]
        /\ UNCHANGED <<users, cache, now, ticks, issued, lastIssued, revoked,
                       call, rows, user_seq, contacts, contact_seq, limiter>>

\* The background task send_email: it signs the email token with the clock
\* of the moment it runs and mails it.
send_email(i) ==
    /\ tasks[i].pc = "mailing"
    /\ issued' = issued \cup {create_email_token(tasks[i].email, now)}
    /\ tasks' = finish(i)
    /\ CanIssue
    /\ UNCHANGED <<users, cache, now, ticks, lastIssued, resp, revoked, call,
                   rows, user_seq, contacts, contact_seq, limiter>>

(* ------------------------------- login --------------------------------- *)
login_detail_absent == "Invalid email"
login_detail_password == "Invalid password"

\* The response of login for the table us at time t.
login_response(us, email, password, t) ==
    LET body == [NoResp EXCEPT !.op = "login", !.email = email]
        user == get_user_by_email(us, email)
    IN  IF ~user.present
        THEN [body EXCEPT !.status = HTTP_401,
                          !.detail = login_detail_absent]
        ELSE IF ~verify_password(password, user.password)
        THEN [body EXCEPT !.status = HTTP_401,
                          !.detail = login_detail_password]
        ELSE [body EXCEPT !.status = 200,
                          !.access_token = create_access_token(email, t),
                          !.refresh_token = create_refresh_token(email, t)]

\* login has one await, the query, and reads the clock only after it: the
\* query and the rest of the handler are one step.
login(email, password) ==
    LET r == login_response(users, email, password, now)
    IN  /\ resp' = r
        /\ IF r.status = 200
           THEN /\ issued' = issued \cup {r.access_token, r.refresh_token}
                /\ lastIssued' = [lastIssued EXCEPT
                                    ![email] = r.refresh_token]
           ELSE UNCHANGED <<issued, lastIssued>>
        /\ UNCHANGED <<users, cache, now, ticks, tasks, revoked, call,
                       rows, user_seq, contacts, contact_seq, limiter>>
        /\ CanIssue

(* --------------------------- refresh_token ----------------------------- *)
\* `user.refresh_token != token` (line 78).
token_mismatch_m(stored, token) == stored # NoToken /\ stored # token

token_mismatch(stored, token) == stored # token

\* user.refresh_token = refresh_token; await db.commit()
rotate_token(us, email, loaded, token) ==
    flush(us, email, loaded, "refresh_token", token)

\* token = credentials.credentials; decode_refresh_token reads the clock;
\* then the request is suspended on get_user_by_email.
refresh_token_decode(i, token) ==
    LET body == [NoResp EXCEPT !.op = "refresh", !.token = token,
                               !.was_revoked = token.sub \in RevokedEmails]
        d == decode_refresh_token(token, now)
    IN  /\ Free(i)
        /\ IF d = "jwt"
           THEN /\ resp' = [body EXCEPT !.status = HTTP_401,
                              !.detail = "Could not validate credentials"]
                /\ UNCHANGED tasks
           ELSE IF d = "scope"
           THEN /\ resp' = [body EXCEPT !.status = HTTP_401,
                              !.detail = "Invalid scope for token"]
                /\ UNCHANGED tasks
           ELSE IF d = "keyerror"
           THEN /\ resp' = [body EXCEPT !.status = 500,
                              !.detail = "KeyError"]
                /\ UNCHANGED tasks
           ELSE /\ tasks' = [tasks EXCEPT ![i] =
                      [IdleTask EXCEPT !.pc = "decoded", !.route = "refresh",
                         !.token = token, !.email = token.sub]]
                /\ UNCHANGED resp
        /\ UNCHANGED <<users, cache, now, ticks, issued, lastIssued, revoked,
                       call, rows, user_seq, contacts, contact_seq, limiter>>

\* The query answers; the handler compares the row's token with the
\* presented one and either awaits update_token(user, None) or signs the
\* new pair, assigns user.refresh_token and awaits db.commit().
refresh_token_read(i) ==
    LET token == tasks[i].token
        email == tasks[i].email
        user == get_user_by_email(users, email)
        body == [NoResp EXCEPT !.op = "refresh", !.token = token,
                               !.was_revoked = email \in RevokedEmails]
    IN  /\ tasks[i].pc = "decoded"
        /\ tasks[i].route = "refresh"
        /\ IF ~user.present
           THEN \* user is None: user.refresh_token raises AttributeError
                /\ resp' = [body EXCEPT !.status = 500,
                              !.detail = "AttributeError", !.email = email]
                /\ tasks' = finish(i)
           ELSE IF token_mismatch(user.refresh_token, token)
           THEN /\ tasks' = [tasks EXCEPT ![i].pc = "revoking",
                                          ![i].user = user]
                /\ UNCHANGED resp
           ELSE /\ tasks' = [tasks EXCEPT
                      ![i].pc = "rotating",
                      ![i].user = user,
                      ![i].access_token = create_access_token(email, now),
                      ![i].refresh_token = create_refresh_token(email, now)]
                /\ UNCHANGED resp
        /\ UNCHANGED <<users, cache, now, ticks, issued, lastIssued, revoked,
                       call, rows, user_seq, contacts, contact_seq, limiter>>
        /\ CanIssue

\* The commit is done and the handler answers: 401 'Invalid refresh token'
\* after update_token(user, None), the new pair after the rotation. The
\* commit writes the column only when the assigned value differs from the
\* one the request read (see flush).
refresh_token_commit(i) ==
    LET token == tasks[i].token
        email == tasks[i].email
        loaded == tasks[i].user
        body == [NoResp EXCEPT !.op = "refresh", !.token = token,
                               !.email = email,
                               !.was_revoked = email \in RevokedEmails]
    IN  /\ tasks[i].pc \in {"revoking", "rotating"}
        /\ IF tasks[i].pc = "revoking"
           THEN /\ users' = update_token(users, email, loaded, NoToken)
                /\ resp' = [body EXCEPT !.status = HTTP_401,
                                        !.detail = "Invalid refresh token"]
                /\ revoked' = IF loaded.refresh_token # NoToken
                              THEN revoke(email, users[email].refresh_token)
                              ELSE revoked
                /\ UNCHANGED <<issued, lastIssued>>
           ELSE /\ users' = rotate_token(users, email, loaded,
                                         tasks[i].refresh_token)
                /\ revoked' = IF loaded.refresh_token
                                   # tasks[i].refresh_token
                              THEN unrevoke(email)
                              ELSE revoked
                /\ issued' = issued \cup {tasks[i].access_token,
                                          tasks[i].refresh_token}
                /\ lastIssued' = [lastIssued EXCEPT
                                    ![email] = tasks[i].refresh_token]
                /\ resp' = [body EXCEPT
                              !.status = 200,
                              !.access_token = tasks[i].access_token,
                              !.refresh_token = tasks[i].refresh_token]
        /\ tasks' = finish(i)
        /\ UNCHANGED <<cache, now, ticks, call, rows, user_seq,
                       contacts, contact_seq, limiter>>

(* ---------------------------- IdentityCache ---------------------------- *)
\* self.cache.get: the entry redis still holds (see cache_expire).
cache_get(c, email) == IF email \in DOMAIN c THEN c[email] ELSE NoEntry

\* The two redis commands. SET writes the value and discards any expiry
\* the key had; EXPIRE gives an existing key its expiry.
redis_set(c, email, user) ==
    [c EXCEPT ![email] = [present |-> TRUE, value |-> user,
                          expire_at |-> NoExpiry]]

redis_expire(c, email, t) ==
    IF cache_get(c, email).present
    THEN [c EXCEPT ![email].expire_at = t + CacheTTL]
    ELSE c

\* self.cache.set(email, pickle.dumps(user)); self.cache.expire(email, 300):
\* two calls of the blocking redis client with no await between them.
cache_set_m(c, email, user, t) == c

cache_set(c, email, user, t) ==
    redis_expire(redis_set(c, email, user), email, t)

(* --------------------------- get_current_user -------------------------- *)
credentials_detail == "Could not validate credentials 1"

access_token_check_m(token, t) ==
    IF JWTError(token, t) THEN "401"
    ELSE IF token.scope = "" THEN "keyerror"
    ELSE "ok"

\* Outcome of the token check of get_current_user: "ok", "401" (the
\* credentials exception) or "keyerror" (payload['scope'] or payload['sub']
\* raises KeyError).
access_token_check(token, t) ==
    IF JWTError(token, t) THEN "401"
    ELSE IF token.scope = "" THEN "keyerror"
    ELSE IF token.scope = "access_token"
    THEN IF "sub" \in DOMAIN token THEN "ok" ELSE "keyerror"
    ELSE "401"

\* The routes of the users router: GET /users/me returns the principal
\* Auth.get_current_user resolves, PATCH /users/avatar goes on with it.
\* Both carry RateLimiter(times=1, seconds=2), which runs first.
Routes == {"me", "avatar"}

\* The limiter refuses the request: 429, and get_current_user does not run.
rate_limited(route, token) ==
    /\ Admitted
    /\ TooManyRequests(limiter, route)
    /\ resp' = [NoResp EXCEPT !.op = route, !.status = 429,
                              !.detail = "Too Many Requests",
                              !.token = token]
    /\ UNCHANGED <<users, cache, now, ticks, issued, lastIssued, tasks,
                   revoked, call, rows, user_seq, contacts, contact_seq,
                   limiter>>

\* The limiter admits the request and counts it; then
\* Auth.get_current_user up to its await: the token check (it reads the
\* clock) and cache.get. A hit resolves the principal at once; on a miss
\* the request is suspended on get_user_by_email.
get_current_user_cache(i, route, token) ==
    LET body == [NoResp EXCEPT !.op = route, !.token = token]
        chk == access_token_check(token, now)
        email == token.sub
        hit == cache_get(cache, email)
        t == [IdleTask EXCEPT !.route = route, !.token = token,
                              !.email = email]
    IN  /\ Free(i)
        /\ ~TooManyRequests(limiter, route)
        /\ limiter' = RateLimiter(limiter, route, now)
        /\ IF chk = "401"
           THEN /\ resp' = [body EXCEPT !.status = HTTP_401,
                                        !.detail = credentials_detail]
                /\ UNCHANGED tasks
           ELSE IF chk = "keyerror"
           THEN /\ resp' = [body EXCEPT !.status = 500,
                                        !.detail = "KeyError"]
                /\ UNCHANGED tasks
           ELSE IF ~hit.present
           THEN /\ tasks' = [tasks EXCEPT ![i] =
                                [t EXCEPT !.pc = "querying"]]
                /\ UNCHANGED resp
           ELSE IF route = "me"
           THEN /\ resp' = [body EXCEPT !.status = 200, !.email = email,
                                        !.user = hit.value,
                                        !.cache_reads = 1]
                /\ UNCHANGED tasks
           ELSE /\ tasks' = [tasks EXCEPT ![i] =
                                [t EXCEPT !.pc = "authed"]]
                /\ UNCHANGED resp
        /\ UNCHANGED <<users, cache, now, ticks, issued, lastIssued, revoked,
                       call, rows, user_seq, contacts, contact_seq>>

\* The query answers: 401 for no row; else the row is written to the cache
\* with its 300 s and is the resolved principal, an object of the request's
\* session. (A principal taken from the cache is not.)
get_current_user_query(i) ==
    LET route == tasks[i].route
        email == tasks[i].email
        user == get_user_by_email(users, email)
        body == [NoResp EXCEPT !.op = route, !.token = tasks[i].token,
                               !.email = email, !.lookups = 1,
                               !.cache_reads = 1]
    IN  /\ tasks[i].pc = "querying"
        /\ route \in Routes
        /\ IF ~user.present
           THEN /\ resp' = [body EXCEPT !.status = HTTP_401,
                                        !.detail = credentials_detail]
                /\ tasks' = finish(i)
                /\ UNCHANGED cache
           ELSE /\ cache' = cache_set(cache, email, user, now)
                /\ IF route = "me"
                   THEN /\ resp' = [body EXCEPT !.status = 200,
                                                !.user = user]
                        /\ tasks' = finish(i)
                   ELSE /\ tasks' = [tasks EXCEPT ![i].pc = "authed",
                                                  ![i].user = user]
                        /\ UNCHANGED resp
        /\ UNCHANGED <<users, now, ticks, issued, lastIssued, revoked,
                       call, rows, user_seq, contacts, contact_seq, limiter>>

\* The query answers and cache.set writes the entry, but cache.expire
\* raises (the connection to redis is lost): the request ends with the
\* entry written and no expiry given to it.
get_current_user_fail(i) ==
    LET email == tasks[i].email
        user == get_user_by_email(users, email)
        body == [NoResp EXCEPT !.op = tasks[i].route,
                               !.token = tasks[i].token,
                               !.email = email, !.lookups = 1,
                               !.cache_reads = 1]
    IN  /\ tasks[i].pc = "querying"
        /\ user.present
        /\ cache' = redis_set(cache, email, user)
        /\ resp' = [body EXCEPT !.status = 500,
                                !.detail = "ConnectionError"]
        /\ tasks' = finish(i)
        /\ UNCHANGED <<users, now, ticks, issued, lastIssued, revoked,
                       call, rows, user_seq, contacts, contact_seq, limiter>>

(* ------------------------------- avatar -------------------------------- *)
\* PATCH /users/avatar with its caller resolved: the upload gives the url;
\* update_avatar_url queries the row and assigns its avatar (for no row
\* the assignment raises AttributeError), then awaits db.commit(). A row
\* the session holds already (get_current_user loaded it) is not read
\* again: the query hands out the object as it was loaded.
avatar_query(i, url) ==
    LET email == tasks[i].email
        body == [NoResp EXCEPT !.op = "avatar", !.token = tasks[i].token,
                               !.email = email]
        user == IF tasks[i].user.present THEN tasks[i].user
                ELSE get_user_by_email(users, email)
    IN  /\ tasks[i].pc = "authed"
        /\ tasks[i].route = "avatar"
        /\ IF AttributeError(users, email)
           THEN /\ resp' = [body EXCEPT !.status = 500,
                                        !.detail = "AttributeError"]
                /\ tasks' = finish(i)
           ELSE /\ tasks' = [tasks EXCEPT ![i].pc = "assigned",
                                          ![i].user = user,
                                          ![i].url = url]
                /\ UNCHANGED resp
        /\ UNCHANGED <<users, cache, now, ticks, issued, lastIssued, revoked,
                       call, rows, user_seq, contacts, contact_seq, limiter>>

\* The commit writes the avatar column; db.refresh(user) is awaited.
avatar_commit(i) ==
    /\ tasks[i].pc = "assigned"
    /\ tasks[i].route = "avatar"
    /\ users' = update_avatar_url(users, tasks[i].email, tasks[i].user,
                                  tasks[i].url)
    /\ tasks' = [tasks EXCEPT ![i].pc = "updated"]
    /\ UNCHANGED <<cache, now, ticks, issued, lastIssued, resp, revoked,
                   call, rows, user_seq, contacts, contact_seq, limiter>>

\* await db.refresh(user): the row as the table holds it now is returned.
avatar_refresh(i) ==
    LET email == tasks[i].email
        body == [NoResp EXCEPT !.op = "avatar", !.token = tasks[i].token,
                               !.email = email]
    IN  /\ tasks[i].pc = "updated"
        /\ resp' = [body EXCEPT !.status = 200,
                                !.user = get_user_by_email(users, email)]
        /\ tasks' = finish(i)
        /\ UNCHANGED <<users, cache, now, ticks, issued, lastIssued, revoked,
                       call, rows, user_seq, contacts, contact_seq, limiter>>

(* --------------------------- confirmed_email --------------------------- *)
\* get_email_from_token: any token jwt.decode accepts yields payload["sub"],
\* whatever its scope; a payload without sub raises KeyError, which the
\* except clause (JWTError) does not catch.
get_email_from_token(token, t) ==
    IF JWTError(token, t) THEN "jwt"
    ELSE IF "sub" \notin DOMAIN token THEN "keyerror"
    ELSE "ok"

\* get_email_from_token reads the clock; then the request is suspended on
\* get_user_by_email.
confirmed_email_decode(i, token) ==
    LET body == [NoResp EXCEPT !.op = "confirm", !.token = token]
        g == get_email_from_token(token, now)
    IN  /\ Free(i)
        /\ IF g = "jwt"
           THEN /\ resp' = [body EXCEPT !.status = HTTP_422,
                       !.detail = "Invalid token for email verification"]
                /\ UNCHANGED tasks
           ELSE IF g = "keyerror"
           THEN /\ resp' = [body EXCEPT !.status = 500,
                                        !.detail = "KeyError"]
                /\ UNCHANGED tasks
           ELSE /\ tasks' = [tasks EXCEPT ![i] =
                      [IdleTask EXCEPT !.pc = "decoded", !.route = "confirm",
                         !.token = token, !.email = token.sub]]
                /\ UNCHANGED resp
        /\ UNCHANGED <<users, cache, now, ticks, issued, lastIssued, revoked,
                       call, rows, user_seq, contacts, contact_seq, limiter>>

\* The query answers; the tests on the row; for an unconfirmed row the
\* repository's confirmed_email is called, which awaits a query of its own.
confirmed_email_read(i) ==
    LET email == tasks[i].email
        user == get_user_by_email(users, email)
        body == [NoResp EXCEPT !.op = "confirm", !.token = tasks[i].token,
                               !.email = email]
    IN  /\ tasks[i].pc = "decoded"
        /\ tasks[i].route = "confirm"
        /\ IF ~user.present
           THEN /\ resp' = [body EXCEPT !.status = HTTP_400,
                                        !.detail = "Verification error"]
                /\ tasks' = finish(i)
           ELSE IF user.confirmed
           THEN /\ resp' = [body EXCEPT !.status = 200,
                       !.detail = "Your email is already confirmed"]
                /\ tasks' = finish(i)
           ELSE /\ tasks' = [tasks EXCEPT ![i].pc = "confirming",
                                          ![i].user = user]
                /\ UNCHANGED resp
        /\ UNCHANGED <<users, cache, now, ticks, issued, lastIssued, revoked,
                       call, rows, user_seq, contacts, contact_seq, limiter>>

\* The repository's confirmed_email: its query answers with the object the
\* session holds already, user.confirmed = True is assigned (for no row the
\* assignment raises AttributeError); db.commit() is awaited.
confirmed_email_query(i) ==
    LET email == tasks[i].email
        body == [NoResp EXCEPT !.op = "confirm", !.token = tasks[i].token,
                               !.email = email]
    IN  /\ tasks[i].pc = "confirming"
        /\ IF AttributeError(users, email)
           THEN /\ resp' = [body EXCEPT !.status = 500,
                                        !.detail = "AttributeError"]
                /\ tasks' = finish(i)
           ELSE /\ tasks' = [tasks EXCEPT ![i].pc = "assigned"]
                /\ UNCHANGED resp
        /\ UNCHANGED <<users, cache, now, ticks, issued, lastIssued, revoked,
                       call, rows, user_seq, contacts, contact_seq, limiter>>

\* The commit writes the confirmed column and the handler answers.
confirmed_email_commit(i) ==
    LET email == tasks[i].email
        body == [NoResp EXCEPT !.op = "confirm", !.token = tasks[i].token,
                               !.email = email]
    IN  /\ tasks[i].pc = "assigned"
        /\ tasks[i].route = "confirm"
        /\ users' = repo_confirmed_email(users, email, tasks[i].user)
        /\ resp' = [body EXCEPT !.status = 200,
                                !.detail = "Email confirmed"]
        /\ tasks' = finish(i)
        /\ UNCHANGED <<cache, now, ticks, issued, lastIssued, revoked,
                       call, rows, user_seq, contacts, contact_seq, limiter>>

(* ---------------------------- request_email ---------------------------- *)
\* get_user_by_email; user.confirmed is read before the `if user` test, so
\* an email without a row raises AttributeError. For an unconfirmed row
\* send_email is queued, which runs once the response has been sent.
request_email(i, email) ==
    LET body == [NoResp EXCEPT !.op = "request_email", !.email = email]
        user == get_user_by_email(users, email)
    IN  /\ Free(i)
        /\ IF ~user.present
           THEN /\ resp' = [body EXCEPT !.status = 500,
                                        !.detail = "AttributeError"]
                /\ UNCHANGED tasks
           ELSE IF user.confirmed
           THEN /\ resp' = [body EXCEPT !.status = 200,
                       !.detail = "Your email is already confirmed"]
                /\ UNCHANGED tasks
           ELSE /\ resp' = [body EXCEPT !.status = 200,
                       !.detail = "Check your email for confirmation."]
                /\ tasks' = [tasks EXCEPT ![i] =
                      [IdleTask EXCEPT !.pc = "mailing",
                         !.route = "request_email", !.email = email]]
        /\ UNCHANGED <<users, cache, now, ticks, issued, lastIssued, revoked,
                       call, rows, user_seq, contacts, contact_seq, limiter>>

(* -------------------------- password_recovery -------------------------- *)
\* The names bound where the body of password_recovery looks them up: its
\* parameters, its local `user`, and the names routes/auth.py binds at
\* module level (its imports, router, get_refresh_token, the handlers).
RecoveryNames ==
    {"body", "background_tasks", "request", "db", "user",
     "APIRouter", "HTTPException", "Depends", "status", "Security",
     "BackgroundTasks", "Request", "OAuth2PasswordRequestForm",
     "HTTPAuthorizationCredentials", "HTTPBearer", "AsyncSession",
     "auth_service", "email", "get_db", "users_repo", "UserSchema",
     "TokenSchema", "UserResponse", "RequestEmail", "router",
     "get_refresh_token", "signup", "login", "refresh_token",
     "confirmed_email", "request_email", "password_recovery"}

\* Line 159 reads new_password, whose assignment is commented out (line
\* 157); the name is no builtin either.
NameError == "new_password" \notin RecoveryNames

\* The response of password_recovery: the body fields plus `mail`, the
\* address background_tasks.add_task was given for the reset-password
\* email ("" when add_task was not reached).
recovery_resp(status, detail, email, mail) ==
    [f \in DOMAIN NoResp \cup {"mail"} |->
        IF f = "op" THEN "recover"
        ELSE IF f = "status" THEN status
        ELSE IF f = "detail" THEN detail
        ELSE IF f = "email" THEN email
        ELSE IF f = "mail" THEN mail
        ELSE NoResp[f]]

\* get_user_by_email; "email not registered" for no row; add_task; then
\* the arguments of update_password are evaluated, new_password first
\* among the unbound ones, and only then the row would be written.
password_recovery(email, password, salt) ==
    LET user == get_user_by_email(users, email)
    IN  /\ IF ~user.present
           THEN /\ resp' = recovery_resp(200, "email not registered",
                                         email, "")
                /\ UNCHANGED users
           ELSE IF NameError
           THEN /\ resp' = recovery_resp(500, "NameError", email, email)
                /\ UNCHANGED users
           ELSE /\ users' = update_password(users, email, user,
                                get_password_hash(password, salt))
                /\ resp' = recovery_resp(200, "", email, email)
        /\ UNCHANGED <<cache, now, ticks, issued, lastIssued, tasks, revoked,
                       call, rows, user_seq, contacts, contact_seq, limiter>>

(* --------------------------- specifications ---------------------------- *)
\* The session routes: login, refresh_token and GET /users/me, their
\* requests interleaved at the awaits; request_email with its background
\* task is the source of email tokens.
Next ==
    \/ \E d \in Deltas : Tick(d)
    \/ \E e \in Emails \cup Strangers, p \in Passwords : login(e, p)
    \/ \E i \in Tasks, e \in Emails : request_email(i, e)
    \/ \E i \in Tasks : send_email(i)
    \/ \E i \in Tasks, t \in Presentable : refresh_token_decode(i, t)
    \/ \E i \in Tasks : refresh_token_read(i)
    \/ \E i \in Tasks : refresh_token_commit(i)
    \/ \E t \in Presentable : rate_limited("me", t)
    \/ \E i \in Tasks, t \in Presentable : get_current_user_cache(i, "me", t)
    \/ \E i \in Tasks : get_current_user_query(i)

Spec == Init /\ [][Next]_vars

\* The routes of the users router, GET /users/me and PATCH /users/avatar,
\* with login as the source of access tokens.
NextUsers ==
    \/ \E d \in Deltas : Tick(d)
    \/ \E e \in Emails, p \in Passwords : login(e, p)
    \/ \E r \in Routes, t \in Presentable : rate_limited(r, t)
    \/ \E i \in Tasks, r \in Routes, t \in Presentable :
         get_current_user_cache(i, r, t)
    \/ \E i \in Tasks : get_current_user_query(i)
    \/ \E i \in Tasks, u \in Avatars : avatar_query(i, u)
    \/ \E i \in Tasks : avatar_commit(i)
    \/ \E i \in Tasks : avatar_refresh(i)

SpecUsers == Init /\ [][NextUsers]_vars

\* The account routes: signup, confirmation of the email and its
\* re-request, with login as the source of access and refresh tokens.
NextAccount ==
    \/ \E d \in Deltas : Tick(d)
    \/ \E i \in Tasks, e \in Emails, p \in Passwords :
         signup_read(i, e, p, 1)
    \/ \E i \in Tasks : signup_commit(i)
    \/ \E i \in Tasks : signup_refresh(i)
    \/ \E e \in Emails, p \in Passwords : login(e, p)
    \/ \E i \in Tasks, t \in Presentable : confirmed_email_decode(i, t)
    \/ \E i \in Tasks : confirmed_email_read(i)
    \/ \E i \in Tasks : confirmed_email_query(i)
    \/ \E i \in Tasks : confirmed_email_commit(i)
    \/ \E i \in Tasks, e \in Emails \cup Strangers : request_email(i, e)
    \/ \E i \in Tasks : send_email(i)

SpecAccount == Init /\ [][NextAccount]_vars

\* get_current_user with a redis that may fail between its two commands.
NextCache ==
    \/ \E d \in Deltas : Tick(d)
    \/ \E e \in Emails, p \in Passwords : login(e, p)
    \/ \E t \in Presentable : rate_limited("me", t)
    \/ \E i \in Tasks, t \in Presentable : get_current_user_cache(i, "me", t)
    \/ \E i \in Tasks : get_current_user_query(i)
    \/ \E i \in Tasks : get_current_user_fail(i)

SpecCache == Init /\ [][NextCache]_vars

\* signup requests on their own, the users table seen row by row.
InitSignup ==
    /\ users \in { [e \in Emails |-> u] :
                     u \in {NoUser,
                            [NoUser EXCEPT !.present = TRUE,
                               !.password =
                                  get_password_hash(Pw("passw0rd"), 1)]} }
    /\ cache = [e \in Emails |-> NoEntry]
    /\ now = 0
    /\ ticks = 0
    /\ issued = {}
    /\ lastIssued = [e \in Emails |-> NoToken]
    /\ resp = NoResp
    /\ tasks = [i \in Tasks |-> IdleTask]
    /\ revoked = {}
    /\ call = NoCall
    /\ rows = table_rows(users)
    /\ user_seq = Cardinality(table_rows(users))
    /\ contacts = {}
    /\ contact_seq = 0
    /\ limiter = [r \in Limited |-> NoWindow]

NextSignup ==
    \/ \E i \in Tasks, e \in Emails \cup Strangers, p \in Passwords,
          salt \in Salts : signup_read(i, e, p, salt)
    \/ \E i \in Tasks : signup_commit(i)
    \/ \E i \in Tasks : signup_refresh(i)
    \/ \E i \in Tasks : send_email(i)

SpecSignup == InitSignup /\ [][NextSignup]_vars

\* The calls that issue or store refresh tokens, from a table no refresh
\* token has been written to: signup, login and refresh_token.
NextSession ==
    \/ \E d \in Deltas : Tick(d)
    \/ \E i \in Tasks, e \in Emails, p \in Passwords :
         signup_read(i, e, p, 1)
    \/ \E i \in Tasks : signup_commit(i)
    \/ \E i \in Tasks : signup_refresh(i)
    \/ \E i \in Tasks : send_email(i)
    \/ \E e \in Emails, p \in Passwords : login(e, p)
    \/ \E i \in Tasks, t \in Presentable : refresh_token_decode(i, t)
    \/ \E i \in Tasks : refresh_token_read(i)
    \/ \E i \in Tasks : refresh_token_commit(i)

SpecSession == InitSignup /\ [][NextSession]_vars

\* password_recovery, for emails that have signed up and for others.
NextRecovery ==
    \/ \E i \in Tasks, e \in Emails, p \in Passwords, salt \in Salts :
         signup_read(i, e, p, salt)
    \/ \E i \in Tasks : signup_commit(i)
    \/ \E i \in Tasks : signup_refresh(i)
    \/ \E i \in Tasks : send_email(i)
    \/ \E e \in Emails \cup Strangers, p \in Passwords, s \in Salts :
         password_recovery(e, p, s)

SpecRecovery == InitSignup /\ [][NextRecovery]_vars

(* ------------------- direct calls of Auth's functions ------------------ *)
\* Arguments for create_access_token / create_refresh_token: the data dict
\* (one already carries a scope key, one has no sub key) and expires_delta.
TokenData ==
    { [sub |-> "a@x.com"],
      [sub |-> "a@x.com", user_id |-> "7"],
      [sub |-> "a@x.com", scope |-> "email"],
      [user_id |-> "7"] }

ExpiresDeltas == { <<>> } \cup { <<d>> : d \in {0, 1, CacheTTL} }

\* Passwords for get_password_hash / verify_password: the 8-character ones
\* and three that agree on their first 72 bytes.
HashInputs ==
    Passwords \cup { [head |-> "first-72-bytes", tail |-> x] :
                       x \in {"", "A", "B"} }

InitCalls ==
    /\ users = [e \in Emails |-> NoUser]
    /\ cache = [e \in Emails |-> NoEntry]
    /\ now = 0
    /\ ticks = 0
    /\ issued = {}
    /\ lastIssued = [e \in Emails |-> NoToken]
    /\ resp = NoResp
    /\ tasks = [i \in Tasks |-> IdleTask]
    /\ revoked = {}
    /\ call = NoCall
    /\ rows = {}
    /\ user_seq = 0
    /\ contacts = {}
    /\ contact_seq = 0
    /\ limiter = [r \in Limited |-> NoWindow]

call_create_access_token(data, expires_delta) ==
    /\ call' = [fn |-> "create_access_token", data |-> data,
                expires_delta |-> expires_delta, at |-> now,
                token |-> create_access_token_with(data, expires_delta, now),
                data_after |-> data]
    /\ UNCHANGED <<users, cache, now, ticks, issued, lastIssued, resp,
                   tasks, revoked, rows, user_seq,
                   contacts, contact_seq, limiter>>

call_create_refresh_token(data, expires_delta) ==
    /\ call' = [fn |-> "create_refresh_token", data |-> data,
                expires_delta |-> expires_delta, at |-> now,
                token |-> create_refresh_token_with(data, expires_delta, now),
                data_after |-> data]
    /\ UNCHANGED <<users, cache, now, ticks, issued, lastIssued, resp,
                   tasks, revoked, rows, user_seq,
                   contacts, contact_seq, limiter>>

\* Decoding the token of the last create call at the current time: by
\* get_current_user's decode for an access token, by decode_refresh_token
\* for a refresh token.
call_decode ==
    /\ call.fn \in {"create_access_token", "create_refresh_token"}
    /\ call' = [fn |-> "decode", data |-> call.data,
                expires_delta |-> call.expires_delta, at |-> call.at,
                token |-> call.token, decoded_at |-> now,
                result |-> IF call.fn = "create_access_token"
                           THEN access_token_check(call.token, now)
                           ELSE decode_refresh_token(call.token, now),
                malformed |-> IF call.fn = "create_access_token"
                              THEN access_token_check(BadToken, now)
                              ELSE decode_refresh_token(BadToken, now),
                forged |-> IF call.fn = "create_access_token"
                           THEN access_token_check(ForgedToken, now)
                           ELSE decode_refresh_token(ForgedToken, now),
                email |-> get_email_from_token(call.token, now)]
    /\ UNCHANGED <<users, cache, now, ticks, issued, lastIssued, resp,
                   tasks, revoked, rows, user_seq,
                   contacts, contact_seq, limiter>>

\* get_password_hash under one of the bcrypt builds: the hash, or the
\* ValueError of a build that refuses the password.
call_get_password_hash(password, salt, build) ==
    /\ call' = [fn |-> "get_password_hash", password |-> password,
                build |-> build,
                raised |-> ValueError(password, build),
                hash |-> IF ValueError(password, build) THEN NoHash
                         ELSE get_password_hash(password, salt)]
    /\ UNCHANGED <<users, cache, now, ticks, issued, lastIssued, resp,
                   tasks, revoked, rows, user_seq,
                   contacts, contact_seq, limiter>>

\* verify_password against the hash the last call produced, under the same
\* build.
call_verify_password(plain_password) ==
    /\ call.fn = "get_password_hash"
    /\ ~call.raised
    /\ call' = [fn |-> "verify_password", password |-> call.password,
                build |-> call.build,
                hash |-> call.hash, plain_password |-> plain_password,
                raised |-> ValueError(plain_password, call.build),
                result |-> /\ ~ValueError(plain_password, call.build)
                           /\ verify_password(plain_password, call.hash)]
    /\ UNCHANGED <<users, cache, now, ticks, issued, lastIssued, resp,
                   tasks, revoked, rows, user_seq,
                   contacts, contact_seq, limiter>>

NextCalls ==
    \/ \E d \in Deltas : Tick(d)
    \/ \E data \in TokenData, d \in ExpiresDeltas :
         call_create_access_token(data, d)
    \/ \E data \in TokenData, d \in ExpiresDeltas :
         call_create_refresh_token(data, d)
    \/ call_decode
    \/ \E p \in HashInputs, salt \in Salts, b \in Builds :
         call_get_password_hash(p, salt, b)
    \/ \E p \in HashInputs : call_verify_password(p)

SpecCalls == InitCalls /\ [][NextCalls]_vars

(* ------------------------------ contacts ------------------------------- *)
\* The contacts routes. Every route but /birthdays resolves its caller with
\* Depends(auth_service.get_current_user) before its handler runs, and
\* POST /contacts/ is rate limited before that. /birthdays has no such
\* dependency: its caller is whoever sends the request, with or without
\* credentials. A request is one action per await of the database; `call`
\* is what the last step of a contacts request has answered, with status 0
\* while that request is suspended.
MaxContacts == 2

Owners == {"a@x.com", "b@x.com"}
Anonymous == ""
FirstNames == {"Ann"}
LastNames == {"Lee"}
ContactEmails == {"c1@x.com", "c2@x.com"}

\* Dates are <<year, month, day>>.
Birthdays == {<<1990, 1, 2>>, <<1990, 1, 30>>, <<1992, 2, 29>>,
              <<1990, 6, 12>>, <<1990, 12, 30>>}
Todays == {<<2023, 12, 28>>, <<2024, 1, 28>>, <<2024, 2, 25>>,
           <<2023, 2, 25>>, <<2024, 6, 10>>}
\* The date of the /birthdays requests of SpecContacts; SpecBirthdays takes
\* every date of Todays.
YearEnd == {<<2023, 12, 28>>}
Offsets == {0, 1}
MinLimit == 10

Phones == {"123456789"}
\* other: Optional[str] is required and may be null.
Others == {"note", None}

\* Request bodies that pass ContactSchema.
AllBodies == [first_name : FirstNames, last_name : LastNames,
              email : ContactEmails, phone : Phones, birthday : Birthdays,
              other : Others]

\* The bodies of the requests of SpecContacts: two emails, two birthdays,
\* other given and null.
Bodies ==
    { b \in AllBodies :
        <<b.email, b.birthday, b.other>>
           \in { <<"c1@x.com", <<1990, 1, 2>>, "note">>,
                 <<"c2@x.com", <<1990, 1, 30>>, None>> } }

\* The bodies of the requests of SpecBirthdays: every birthday.
BirthdayBodies ==
    { b \in AllBodies :
        <<b.email, b.birthday, b.other>>
           \in { <<"c1@x.com", <<1990, 1, 2>>, "note">>,
                 <<"c2@x.com", <<1990, 1, 30>>, "note">>,
                 <<"c1@x.com", <<1992, 2, 29>>, "note">>,
                 <<"c2@x.com", <<1990, 6, 12>>, "note">>,
                 <<"c1@x.com", <<1990, 12, 30>>, "note">> } }

\* body.model_fields_set: ContactSchema has no defaults, every field is set.
model_fields_set ==
    {"first_name", "last_name", "email", "phone", "birthday", "other"}

is_leap(year) ==
    /\ year % 4 = 0
    /\ (year % 100 # 0 \/ year % 400 = 0)

days_in_month(year, month) ==
    IF month = 2 THEN (IF is_leap(year) THEN 29 ELSE 28)
    ELSE IF month \in {4, 6, 9, 11} THEN 30 ELSE 31

next_day(d) ==
    IF d[3] < days_in_month(d[1], d[2]) THEN <<d[1], d[2], d[3] + 1>>
    ELSE IF d[2] < 12 THEN <<d[1], d[2] + 1, 1>>
    ELSE <<d[1] + 1, 1, 1>>

\* today + timedelta(days=n)
RECURSIVE plus_days(_, _)
plus_days(d, n) == IF n = 0 THEN d ELSE plus_days(next_day(d), n - 1)

\* Python's tuple comparison a > b on (month, day) pairs.
tuple_gt(a, b) == a[1] > b[1] \/ (a[1] = b[1] /\ a[2] > b[2])

\* The WHERE clause of get_contacts_by_upcoming_birthday for one birthday.
birthday_filter(now_date, birthday) ==
    LET w == plus_days(now_date, 7)
        in_week == <<w[2], w[3]>>
        today == <<now_date[2], now_date[3]>>
        month == birthday[2]
        day == birthday[3]
    IN  IF tuple_gt(today, in_week)
        THEN \/ (month = today[1] /\ day >= today[2])
             \/ (month = in_week[1] /\ day <= in_week[2])
        ELSE /\ month >= today[1]
             /\ day >= today[2]
             /\ month <= in_week[1]
             /\ day <= in_week[2]

\* .offset(offset).limit(limit) without ORDER BY: the database returns the
\* rows in an order of its choosing, so any selection of the right size.
page(matches, offset, limit) ==
    LET left == IF Cardinality(matches) > offset
                THEN Cardinality(matches) - offset ELSE 0
        size == IF left > limit THEN limit ELSE left
    IN  { r \in SUBSET matches : Cardinality(r) = size }

\* The unique constraint on contacts.email, checked at commit.
contact_email_taken(table, email, except_id) ==
    \E c \in table : c.email = email /\ c.id # except_id

\* filter_by(user=user)
filter_by_user(table, user) == { c \in table : c.user = user }

contact_call(fn, user, status, result) ==
    [fn |-> fn, user |-> user, status |-> status, result |-> result]

\* A step of a request that is suspended again.
contact_pending(fn, user) == contact_call(fn, user, 0, {})

\* response_model=ContactResponse declares `other: str`: a returned row
\* whose other is NULL fails the validation of the response (500).
ResponseValidationError(found) == \E c \in found : c.other = None

\* The slot of a contacts request that is suspended at an await.
contact_task(pc, fn, user, contact_id, body, contact) ==
    [IdleTask EXCEPT !.pc = pc, !.route = fn, !.email = user,
                     !.contact_id = contact_id, !.body = body,
                     !.contact = contact]

UnchangedUsers ==
    UNCHANGED <<users, cache, now, ticks, issued, lastIssued, resp,
                revoked, rows, user_seq, limiter>>

UnchangedAuth == UnchangedUsers /\ UNCHANGED tasks

\* The routes that resolve their caller with
\* Depends(auth_service.get_current_user).
ContactRoutes == {"get_contacts", "get_contact", "get_contacts_by_first_name",
                  "get_contacts_by_last_name", "get_contact_by_email",
                  "create_contact", "update_contact", "delete_contact"}

\* The users table of the contacts routes: both owners have signed up and
\* hold an access token each.
InitContacts ==
    /\ users = [e \in Owners |->
                  [NoUser EXCEPT !.present = TRUE,
                     !.password = get_password_hash(Pw("passw0rd"), 1)]]
    /\ cache = [e \in Owners |-> NoEntry]
    /\ now = 0
    /\ ticks = 0
    /\ issued = { create_access_token(e, 0) : e \in Owners }
    /\ lastIssued = [e \in Owners |-> NoToken]
    /\ resp = NoResp
    /\ tasks = [i \in Tasks |-> IdleTask]
    /\ revoked = {}
    /\ call = NoCall
    /\ rows = table_rows(users)
    /\ user_seq = Cardinality(table_rows(users))
    /\ contacts = {}
    /\ contact_seq = 0
    /\ limiter = [r \in Limited |-> NoWindow]

\* POST /contacts/ refused by its limiter: 429, and neither
\* get_current_user nor the handler runs.
create_contact_limited(token) ==
    /\ Admitted
    /\ TooManyRequests(limiter, "create_contact")
    /\ call' = contact_call("create_contact", token.sub, 429, {})
    /\ UNCHANGED <<contacts, contact_seq>>
    /\ UnchangedAuth

\* A request of a contacts route up to its first await of the database:
\* the limiter of POST /contacts/ admits and counts it; get_current_user
\* checks the token (it reads the clock) and reads the cache. A hit is the
\* principal, and the handler is suspended in its repository call; on a
\* miss the request is suspended on get_user_by_email.
depends_get_current_user_cache(i, fn, token) ==
    LET chk == access_token_check(token, now)
        email == token.sub
        hit == cache_get(cache, email)
    IN  /\ Free(i)
        /\ ~TooManyRequests(limiter, fn)
        /\ limiter' = RateLimiter(limiter, fn, now)
        /\ IF chk = "401"
           THEN /\ call' = contact_call(fn, email, HTTP_401, {})
                /\ UNCHANGED tasks
           ELSE IF chk = "keyerror"
           THEN /\ call' = contact_call(fn, email, 500, {})
                /\ UNCHANGED tasks
           ELSE /\ tasks' = [tasks EXCEPT ![i] =
                      contact_task(IF hit.present THEN "authed"
                                   ELSE "querying",
                                   fn, email, 0, NoBody, NoContact)]
                /\ call' = contact_pending(fn, email)
        /\ UNCHANGED <<users, cache, now, ticks, issued, lastIssued, resp,
                       revoked, rows, user_seq, contacts, contact_seq>>

\* The query of get_current_user answers: 401 for no row; else the row is
\* written to the cache with its 300 s and is the principal, and the
\* handler is suspended in its repository call.
depends_get_current_user_query(i) ==
    LET fn == tasks[i].route
        email == tasks[i].email
        user == get_user_by_email(users, email)
    IN  /\ tasks[i].pc = "querying"
        /\ fn \in ContactRoutes
        /\ IF ~user.present
           THEN /\ call' = contact_call(fn, email, HTTP_401, {})
                /\ tasks' = finish(i)
                /\ UNCHANGED cache
           ELSE /\ cache' = cache_set(cache, email, user, now)
                /\ tasks' = [tasks EXCEPT ![i].pc = "authed"]
                /\ call' = contact_pending(fn, email)
        /\ UNCHANGED <<users, now, ticks, issued, lastIssued, resp, revoked,
                       rows, user_seq, contacts, contact_seq, limiter>>

\* The caller of the request of slot i is resolved and the handler of
\* route fn is suspended in its first repository call.
Resolved(i, fn) ==
    /\ tasks[i].pc = "authed"
    /\ tasks[i].route = fn

get_contacts(i, limit, offset) ==
    LET user == tasks[i].email
    IN  /\ Resolved(i, "get_contacts")
        /\ \E r \in page(filter_by_user(contacts, user), offset, limit) :
             call' = contact_call("get_contacts", user, 200, r)
        /\ tasks' = finish(i)
        /\ UNCHANGED <<contacts, contact_seq>>
        /\ UnchangedUsers

\* scalar_one_or_none, then 404 for None; the row is returned through
\* response_model=ContactResponse.
one_or_404(fn, user, found) ==
    IF found = {}
    THEN call' = contact_call(fn, user, 404, {})
    ELSE IF ResponseValidationError(found)
    THEN call' = contact_call(fn, user, 500, {})
    ELSE call' = contact_call(fn, user, 200, found)

get_contact(i, contact_id) ==
    LET user == tasks[i].email
    IN  /\ Resolved(i, "get_contact")
        /\ one_or_404("get_contact", user,
                      { c \in filter_by_user(contacts, user) :
                          c.id = contact_id })
        /\ tasks' = finish(i)
        /\ UNCHANGED <<contacts, contact_seq>>
        /\ UnchangedUsers

\* A list is never None, so the route's 404 is never taken; the rows are
\* returned through response_model=list[ContactResponse].
list_response(fn, user, found) ==
    IF ResponseValidationError(found)
    THEN contact_call(fn, user, 500, {})
    ELSE contact_call(fn, user, 200, found)

get_contacts_by_first_name(i, first_name) ==
    LET user == tasks[i].email
    IN  /\ Resolved(i, "get_contacts_by_first_name")
        /\ call' = list_response("get_contacts_by_first_name", user,
                     { c \in filter_by_user(contacts, user) :
                         c.first_name = first_name })
        /\ tasks' = finish(i)
        /\ UNCHANGED <<contacts, contact_seq>>
        /\ UnchangedUsers

get_contacts_by_last_name(i, last_name) ==
    LET user == tasks[i].email
    IN  /\ Resolved(i, "get_contacts_by_last_name")
        /\ call' = list_response("get_contacts_by_last_name", user,
                     { c \in filter_by_user(contacts, user) :
                         c.last_name = last_name })
        /\ tasks' = finish(i)
        /\ UNCHANGED <<contacts, contact_seq>>
        /\ UnchangedUsers

get_contact_by_email(i, email) ==
    LET user == tasks[i].email
    IN  /\ Resolved(i, "get_contact_by_email")
        /\ one_or_404("get_contact_by_email", user,
                      { c \in filter_by_user(contacts, user) :
                          c.email = email })
        /\ tasks' = finish(i)
        /\ UNCHANGED <<contacts, contact_seq>>
        /\ UnchangedUsers

\* No user argument and no user filter; datetime.now() is the input `today`.
\* The rows are returned through response_model=list[ContactResponse].
get_contacts_by_upcoming_birthday(caller, today, limit, offset) ==
    /\ Admitted
    /\ \E r \in page({ c \in contacts : birthday_filter(today, c.birthday) },
                     offset, limit) :
         call' = [fn |-> "get_contacts_by_upcoming_birthday",
                  user |-> caller,
                  status |-> IF ResponseValidationError(r) THEN 500 ELSE 200,
                  result |-> IF ResponseValidationError(r) THEN {} ELSE r,
                  today |-> today, offset |-> offset]
    /\ UNCHANGED <<contacts, contact_seq>>
    /\ UnchangedAuth

\* Contact(**body.model_dump(exclude_unset=True), user=user)
new_contact(id, user, body) ==
    [id |-> id, user |-> user, first_name |-> body.first_name,
     last_name |-> body.last_name, email |-> body.email,
     phone |-> body.phone, birthday |-> body.birthday,
     other |-> body.other]

\* db.add(contact); await db.commit(): the INSERT. The commit raises
\* IntegrityError when the email is taken; nothing handles it. The id
\* sequence advances even when the INSERT fails.
create_contact_commit(i, body) ==
    LET user == tasks[i].email
    IN  /\ Resolved(i, "create_contact")
        /\ contact_seq < MaxContacts
        /\ contact_seq' = contact_seq + 1
        /\ IF contact_email_taken(contacts, body.email, 0)
           THEN /\ call' = contact_call("create_contact", user, 500, {})
                /\ tasks' = finish(i)
                /\ UNCHANGED contacts
           ELSE /\ contacts' = contacts
                       \cup {new_contact(contact_seq + 1, user, body)}
                /\ tasks' = [tasks EXCEPT ![i] =
                      contact_task("inserted", "create_contact", user,
                                   contact_seq + 1, NoBody, NoContact)]
                /\ call' = contact_pending("create_contact", user)
        /\ UnchangedUsers

\* await db.refresh(contact) raises when the row has been deleted since;
\* else the row as the table holds it is returned through
\* response_model=ContactResponse.
create_contact_refresh(i) ==
    LET user == tasks[i].email
        found == { c \in contacts : c.id = tasks[i].contact_id }
    IN  /\ tasks[i].pc = "inserted"
        /\ tasks[i].route = "create_contact"
        /\ IF found = {} \/ ResponseValidationError(found)
           THEN call' = contact_call("create_contact", user, 500, {})
           ELSE call' = contact_call("create_contact", user, HTTP_201, found)
        /\ tasks' = finish(i)
        /\ UNCHANGED <<contacts, contact_seq>>
        /\ UnchangedUsers

\* The query of update_contact; for a row the fields of the body are
\* assigned to it and the request is suspended on db.commit().
update_contact_query(i, contact_id, body) ==
    LET user == tasks[i].email
        found == { c \in filter_by_user(contacts, user) : c.id = contact_id }
    IN  /\ Resolved(i, "update_contact")
        /\ IF found = {}
           THEN /\ call' = contact_call("update_contact", user, 404, {})
                /\ tasks' = finish(i)
           ELSE /\ tasks' = [tasks EXCEPT ![i] =
                      contact_task("assigned", "update_contact", user,
                                   contact_id, body,
                                   CHOOSE c \in found : TRUE)]
                /\ call' = contact_pending("update_contact", user)
        /\ UNCHANGED <<contacts, contact_seq>>
        /\ UnchangedUsers

\* The commit: UPDATE contacts SET the columns whose assigned value differs
\* from the loaded one WHERE id = the loaded id. With no such column no
\* UPDATE is sent; an UPDATE that matches no row raises StaleDataError, one
\* that sets a taken email IntegrityError.
update_contact_commit(i) ==
    LET user == tasks[i].email
        loaded == tasks[i].contact
        body == tasks[i].body
        changed == { f \in model_fields_set : body[f] # loaded[f] }
        current == { c \in contacts : c.id = loaded.id }
        written(c) == [ f \in DOMAIN c |->
                          IF f \in changed THEN body[f] ELSE c[f] ]
    IN  /\ tasks[i].pc = "assigned"
        /\ tasks[i].route = "update_contact"
        /\ IF changed = {}
           THEN /\ tasks' = [tasks EXCEPT ![i].pc = "updated"]
                /\ call' = contact_pending("update_contact", user)
                /\ UNCHANGED contacts
           ELSE IF \/ current = {}
                   \/ /\ "email" \in changed
                      /\ contact_email_taken(contacts, body.email, loaded.id)
           THEN /\ tasks' = finish(i)
                /\ call' = contact_call("update_contact", user, 500, {})
                /\ UNCHANGED contacts
           ELSE /\ contacts' = (contacts \ current)
                                  \cup { written(c) : c \in current }
                /\ tasks' = [tasks EXCEPT ![i].pc = "updated"]
                /\ call' = contact_pending("update_contact", user)
        /\ UNCHANGED contact_seq
        /\ UnchangedUsers

\* await db.refresh(contact) raises when the row has been deleted since;
\* else the row as the table holds it is returned (no response_model).
update_contact_refresh(i) ==
    LET user == tasks[i].email
        found == { c \in contacts : c.id = tasks[i].contact_id }
    IN  /\ tasks[i].pc = "updated"
        /\ tasks[i].route = "update_contact"
        /\ IF found = {}
           THEN call' = contact_call("update_contact", user, 500, {})
           ELSE call' = contact_call("update_contact", user, 200, found)
        /\ tasks' = finish(i)
        /\ UNCHANGED <<contacts, contact_seq>>
        /\ UnchangedUsers

\* The query of delete_contact; for a row db.delete marks it and the
\* request is suspended on db.commit().
delete_contact_query(i, contact_id) ==
    LET user == tasks[i].email
        found == { c \in filter_by_user(contacts, user) : c.id = contact_id }
    IN  /\ Resolved(i, "delete_contact")
        /\ IF found = {}
           THEN /\ call' = contact_call("delete_contact", user, 404, {})
                /\ tasks' = finish(i)
           ELSE /\ tasks' = [tasks EXCEPT ![i] =
                      contact_task("deleting", "delete_contact", user,
                                   contact_id, NoBody,
                                   CHOOSE c \in found : TRUE)]
                /\ call' = contact_pending("delete_contact", user)
        /\ UNCHANGED <<contacts, contact_seq>>
        /\ UnchangedUsers

\* The commit: DELETE FROM contacts WHERE id = the loaded id; a DELETE
\* that matches no row only warns. The object as it was loaded is returned.
delete_contact_commit(i) ==
    LET loaded == tasks[i].contact
    IN  /\ tasks[i].pc = "deleting"
        /\ tasks[i].route = "delete_contact"
        /\ contacts' = { c \in contacts : c.id # loaded.id }
        /\ call' = contact_call("delete_contact", tasks[i].email, 200,
                                {loaded})
        /\ tasks' = finish(i)
        /\ UNCHANGED contact_seq
        /\ UnchangedUsers

NextContacts ==
    \/ \E t \in Presentable : create_contact_limited(t)
    \/ \E i \in Tasks, fn \in ContactRoutes, t \in Presentable :
         depends_get_current_user_cache(i, fn, t)
    \/ \E i \in Tasks : depends_get_current_user_query(i)
    \/ \E i \in Tasks, o \in Offsets : get_contacts(i, MinLimit, o)
    \/ \E i \in Tasks, id \in 1..MaxContacts : get_contact(i, id)
    \/ \E i \in Tasks, n \in FirstNames : get_contacts_by_first_name(i, n)
    \/ \E i \in Tasks, n \in LastNames : get_contacts_by_last_name(i, n)
    \/ \E i \in Tasks, e \in ContactEmails : get_contact_by_email(i, e)
    \/ \E u \in Owners \cup {Anonymous}, t \in YearEnd, o \in Offsets :
         get_contacts_by_upcoming_birthday(u, t, MinLimit, o)
    \/ \E i \in Tasks, b \in Bodies : create_contact_commit(i, b)
    \/ \E i \in Tasks : create_contact_refresh(i)
    \/ \E i \in Tasks, id \in 1..MaxContacts, b \in Bodies :
         update_contact_query(i, id, b)
    \/ \E i \in Tasks : update_contact_commit(i)
    \/ \E i \in Tasks : update_contact_refresh(i)
    \/ \E i \in Tasks, id \in 1..MaxContacts : delete_contact_query(i, id)
    \/ \E i \in Tasks : delete_contact_commit(i)

SpecContacts == InitContacts /\ [][NextContacts]_vars

\* /birthdays over tables that hold every birthday.
NextBirthdays ==
    \/ \E t \in Presentable : create_contact_limited(t)
    \/ \E i \in Tasks, fn \in {"create_contact", "delete_contact"},
          t \in Presentable : depends_get_current_user_cache(i, fn, t)
    \/ \E i \in Tasks : depends_get_current_user_query(i)
    \/ \E i \in Tasks, b \in BirthdayBodies : create_contact_commit(i, b)
    \/ \E i \in Tasks : create_contact_refresh(i)
    \/ \E i \in Tasks, id \in 1..MaxContacts : delete_contact_query(i, id)
    \/ \E i \in Tasks : delete_contact_commit(i)
    \/ \E u \in Owners \cup {Anonymous}, t \in Todays, o \in Offsets :
         get_contacts_by_upcoming_birthday(u, t, MinLimit, o)

SpecBirthdays == InitContacts /\ [][NextBirthdays]_vars

(* ------------------------------ claims --------------------------------- *)
\* The row of the principal a request in flight works on.
row(i) == get_user_by_email(users, tasks[i].email)

\* C1 (as claimed): a refresh_token call whose token decodes as a
\* refresh-scope token and equals the stored refresh_token of its subject
\* signs a new access/refresh pair, and when its commit is done it returns
\* 200 with that pair, the returned refresh token is the principal's stored
\* refresh_token, and the two returned tokens differ.
C1_RefreshMatchRotates ==
    /\ [][\A i \in Tasks :
            (refresh_token_read(i) /\ row(i).present
               /\ row(i).refresh_token = tasks[i].token)
            => /\ tasks'[i].pc = "rotating"
               /\ tasks'[i].access_token
                    = create_access_token(tasks[i].email, now)
               /\ tasks'[i].refresh_token.scope = "refresh_token"
               /\ tasks'[i].refresh_token.sub = tasks[i].email
               /\ tasks'[i].refresh_token.iat = now]_vars
    /\ [][\A i \in Tasks :
            (refresh_token_commit(i) /\ tasks[i].pc = "rotating")
            => /\ resp'.status = 200
               /\ resp'.access_token = tasks[i].access_token
               /\ resp'.refresh_token = tasks[i].refresh_token
               /\ users'[tasks[i].email].refresh_token = resp'.refresh_token
               /\ resp'.refresh_token # resp'.access_token
               /\ {resp'.access_token, resp'.refresh_token}
                    \subseteq issued']_vars

\* C2 (as claimed): a refresh_token call whose token decodes as a
\* refresh-scope token but differs from the stored refresh_token of its
\* subject (null included) signs nothing, and when its commit is done the
\* stored refresh_token is null and it fails with 401 'Invalid refresh
\* token'.
C2_ReuseDetectionClears ==
    /\ [][\A i \in Tasks :
            (refresh_token_read(i) /\ row(i).present
               /\ row(i).refresh_token # tasks[i].token)
            => /\ tasks'[i].pc = "revoking"
               /\ tasks'[i].access_token = NoToken
               /\ tasks'[i].refresh_token = NoToken
               /\ issued' = issued]_vars
    /\ [][\A i \in Tasks :
            (refresh_token_commit(i) /\ tasks[i].pc = "revoking")
            => /\ users'[tasks[i].email].refresh_token = NoToken
               /\ issued' = issued
               /\ resp'.status = 401
               /\ resp'.detail = "Invalid refresh token"
               /\ resp'.access_token = NoToken
               /\ resp'.refresh_token = NoToken]_vars

\* C3 (as claimed): once a refresh with token T has succeeded, T is no
\* longer the stored token of the principal, so that a second refresh with
\* T finds a mismatch and fails with 401 'Invalid refresh token', whatever
\* time passed in between.
C3_SecondUseRevoked ==
    (resp.op = "refresh" /\ resp.status = 200)
        => get_user_by_email(users, resp.email).refresh_token # resp.token

\* C4 (as claimed): when the last answered request is a successful login,
\* a refresh presenting the refresh token that login returned finds it
\* stored, so that it rotates and returns a new pair.
C4_LoginThenRefresh ==
    [][\A i \in Tasks :
         (resp.op = "login" /\ resp.status = 200
            /\ resp.refresh_token = tasks[i].token /\ refresh_token_read(i))
         => tasks'[i].pc = "rotating"]_vars

\* C5: in every state that signup, login and refresh_token calls lead to,
\* the stored refresh_token of every principal is null or the refresh token
\* issued last for that principal.
C5_StoredIsLastIssued ==
    \A e \in Emails :
        users[e].present =>
            users[e].refresh_token \in {NoToken, lastIssued[e]}

\* A principal that signed up and logged in presented the refresh token
\* login issued last; the call was refused and the stored token is null.
C5_Witness ==
    /\ resp.op = "refresh"
    /\ resp.status = 401
    /\ resp.detail = "Invalid refresh token"
    /\ resp.email \in Emails
    /\ users[resp.email].present
    /\ resp.token = lastIssued[resp.email]
    /\ users[resp.email].refresh_token = NoToken
    /\ \E r \in rows : r.email = resp.email /\ r.id = user_seq

\* C6 (as claimed): of two interleaved refresh_token requests that present
\* the same token, each having read it as the stored token of the principal
\* and each rotating it to a different token, exactly one returns a pair:
\* the request that commits after the other has returned its pair fails.
C6_OneConcurrentRefreshWins ==
    [][\A i \in Tasks :
         (refresh_token_commit(i) /\ tasks[i].pc = "rotating"
            /\ resp.op = "refresh" /\ resp.status = 200
            /\ resp.token = tasks[i].token
            /\ resp.refresh_token # resp.token
            /\ tasks[i].refresh_token # tasks[i].token)
         => resp'.status # 200]_vars

\* What the caller of login can observe of a response.
Observable(r) ==
    [status |-> r.status, detail |-> r.detail,
     access_token |-> r.access_token, refresh_token |-> r.refresh_token]

\* C7 (as claimed): a login for an email without a principal and a login for
\* a stored principal with a wrong password get the same observable response.
C7_LoginFailuresIndistinguishable ==
    \A e1 \in Emails \cup Strangers, e2 \in Emails, p1 \in Passwords,
       p2 \in Passwords :
        ( /\ ~get_user_by_email(users, e1).present
          /\ get_user_by_email(users, e2).present
          /\ ~verify_password(p2, users[e2].password) )
        => Observable(login_response(users, e1, p1, now))
             = Observable(login_response(users, e2, p2, now))

\* C8: a login of a stored principal with its password returns 200 with an
\* access token and a refresh token whose subject is the email, whose scopes
\* are the access and the refresh scope, and which are distinct strings.
C8_LoginIssuesPair ==
    [][\A e \in Emails, p \in Passwords :
         (login(e, p) /\ users[e].present
            /\ p.head = users[e].password.pw /\ p.tail = "")
         => /\ resp'.status = 200
            /\ resp'.access_token.sub = e
            /\ resp'.refresh_token.sub = e
            /\ resp'.access_token.scope = "access_token"
            /\ resp'.refresh_token.scope = "refresh_token"
            /\ resp'.access_token # resp'.refresh_token
            /\ resp'.access_token.iat = now
            /\ resp'.refresh_token.iat = now]_vars

\* A login of a stored principal with its password succeeded.
C8_Witness ==
    /\ resp.op = "login"
    /\ resp.status = 200
    /\ resp.email \in Emails
    /\ users[resp.email].present
    /\ resp.access_token.sub = resp.email
    /\ resp.access_token.scope = "access_token"
    /\ resp.refresh_token.scope = "refresh_token"

\* The token passes the checks of get_current_user and names a principal.
ValidAccess(t) ==
    /\ access_token_check(t, now) = "ok"
    /\ get_user_by_email(users, t.sub).present

\* C9: with a valid access token, a get_current_user call that finds no
\* cache entry for the email looks the principal up in the store once and
\* writes the entry with a 300 s expiry; a call that finds an entry returns
\* the cached principal without a store lookup; an entry is gone once its
\* 300 s have passed, so the next call looks the principal up again.
C9_IdentityCache ==
    /\ [][\A i \in Tasks, t \in Presentable :
            (get_current_user_cache(i, "me", t) /\ ValidAccess(t))
            => /\ cache' = cache
               /\ ~cache[t.sub].present
                    => /\ tasks'[i].pc = "querying"
                       /\ resp' = resp
               /\ cache[t.sub].present
                    => /\ resp'.status = 200
                       /\ resp'.lookups = 0
                       /\ resp'.user = cache[t.sub].value
                       /\ tasks' = tasks]_vars
    /\ [][\A i \in Tasks :
            (get_current_user_query(i) /\ row(i).present)
            => /\ resp'.status = 200
               /\ resp'.lookups = 1
               /\ resp'.user = row(i)
               /\ cache'[tasks[i].email].present
               /\ cache'[tasks[i].email].value = row(i)
               /\ cache'[tasks[i].email].expire_at = now + 300]_vars
    /\ [](\A e \in Emails : cache[e].present => now <= cache[e].expire_at)

\* A call served from the entry an earlier call wrote, without a lookup.
C9_Witness ==
    /\ resp.op = "me"
    /\ resp.status = 200
    /\ resp.lookups = 0
    /\ cache[resp.email].present
    /\ resp.user = cache[resp.email].value
    /\ now <= cache[resp.email].expire_at

\* C10 (as claimed): a principal returned by get_current_user equals the
\* principal currently in the store.
C10_CacheCoherent ==
    [][\A i \in Tasks, t \in Presentable :
         (get_current_user_cache(i, "me", t) /\ ValidAccess(t)
            /\ cache[t.sub].present)
         => resp'.user = get_user_by_email(users, t.sub)]_vars

\* C11: get_current_user with a validly signed, unexpired token whose scope
\* claim is not the access scope (a refresh token) fails with the 401
\* credentials error without reading the cache or the user store, and
\* leaves the cache as it was.
C11_WrongScopeRejected ==
    [][\A i \in Tasks, r \in Routes, t \in Presentable :
         (get_current_user_cache(i, r, t) /\ ~JWTError(t, now)
            /\ t.scope \notin {"access_token", ""})
         => /\ resp'.status = 401
            /\ resp'.detail = credentials_detail
            /\ resp'.token = t
            /\ resp'.user = NoUser
            /\ resp'.cache_reads = 0
            /\ resp'.lookups = 0
            /\ tasks' = tasks
            /\ cache' = cache]_vars

\* An unexpired refresh token of a registered principal was presented to
\* get_current_user and refused.
C11_Witness ==
    /\ resp.op = "me"
    /\ resp.token.scope = "refresh_token"
    /\ resp.token.exp >= now
    /\ resp.token.sub \in DOMAIN users
    /\ users[resp.token.sub].present
    /\ resp.status = 401
    /\ resp.cache_reads = 0
    /\ resp.lookups = 0

\* C12: once reuse detection has cleared a principal's stored refresh
\* token, get_current_user with an unexpired access token issued for that
\* principal still returns the principal, from the cache or from the store.
C12_AccessSurvivesRevocation ==
    /\ [][\A i \in Tasks, t \in issued :
            (get_current_user_cache(i, "me", t)
               /\ access_token_check(t, now) = "ok"
               /\ t.sub \in RevokedEmails)
            => /\ cache[t.sub].present
                    => /\ resp'.status = 200
                       /\ resp'.email = t.sub
                       /\ resp'.user.present
                       /\ resp'.user = cache[t.sub].value
               /\ ~cache[t.sub].present
                    => tasks'[i].pc = "querying"]_vars
    /\ [][\A i \in Tasks :
            (get_current_user_query(i) /\ tasks[i].token \in issued
               /\ tasks[i].email \in RevokedEmails)
            => /\ resp'.status = 200
               /\ resp'.email = tasks[i].email
               /\ resp'.user.present
               /\ resp'.user = users[tasks[i].email]]_vars

\* A principal was returned for an access token after reuse detection had
\* cleared the principal's stored refresh token.
C12_Witness ==
    /\ resp.op = "me"
    /\ resp.status = 200
    /\ resp.email \in RevokedEmails
    /\ resp.token \in issued
    /\ users[resp.email].refresh_token = NoToken
    /\ resp.user.present

\* C13 (as claimed): a token the JWT library rejects is reported with an
\* error that tells its cause: an expired token never gets the error a
\* malformed or a wrongly signed token gets, and those two differ as well.
\* Each outcome below stands for the status and detail the caller receives.
C13_DecodeErrorsDistinct ==
    \A t \in issued :
        t.exp < now
        => /\ Cardinality({decode_refresh_token(t, now),
                           decode_refresh_token(BadToken, now),
                           decode_refresh_token(ForgedToken, now)}) = 3
           /\ Cardinality({access_token_check(t, now),
                           access_token_check(BadToken, now),
                           access_token_check(ForgedToken, now)}) = 3
           /\ Cardinality({get_email_from_token(t, now),
                           get_email_from_token(BadToken, now),
                           get_email_from_token(ForgedToken, now)}) = 3

\* C14: decode_refresh_token hands the subject of an accepted refresh-scope
\* token on to the handler; a token accepted by the JWT library whose scope
\* has another value fails with 401 'Invalid scope for token', never with
\* the credentials error; a token the JWT library rejects fails with 401
\* 'Could not validate credentials'.
C14_DecodeRefreshToken ==
    [][\A i \in Tasks, t \in Presentable :
         refresh_token_decode(i, t)
         => /\ users' = users
            /\ (~JWTError(t, now) /\ t.scope = "refresh_token")
                 => /\ tasks'[i].pc = "decoded"
                    /\ tasks'[i].email = t.sub
                    /\ resp' = resp
            /\ (~JWTError(t, now) /\ t.scope \notin {"refresh_token", ""})
                 => /\ resp'.status = 401
                    /\ resp'.detail = "Invalid scope for token"
                    /\ resp'.token = t
                    /\ tasks' = tasks
            /\ JWTError(t, now)
                 => /\ resp'.status = 401
                    /\ resp'.detail = "Could not validate credentials"
                    /\ resp'.token = t
                    /\ tasks' = tasks]_vars

\* An unexpired access token was presented to refresh_token and refused
\* for its scope.
C14_Witness ==
    /\ resp.op = "refresh"
    /\ resp.token.scope = "access_token"
    /\ resp.token.exp >= now
    /\ resp.status = 401
    /\ resp.detail = "Invalid scope for token"

\* C15 (as claimed): create_access_token(data, d) and
\* create_refresh_token(data, d) sign the claims of data plus scope
\* ('access_token' / 'refresh_token'), iat = now and exp = now + d; when d
\* is not given exp = now + 15 minutes / now + 7 days; data is unchanged.
C15_TokenClaims ==
    call.fn \in {"create_access_token", "create_refresh_token"}
    => LET own == {"scope", "iat", "exp"}
           access == call.fn = "create_access_token"
       IN  /\ DOMAIN call.token = DOMAIN call.data \cup own
           /\ \A k \in DOMAIN call.data \ own : call.token[k] = call.data[k]
           /\ call.token.scope = IF access THEN "access_token"
                                 ELSE "refresh_token"
           /\ call.token.iat = call.at
           /\ call.token.exp =
                 IF call.expires_delta # <<>>
                 THEN call.at + call.expires_delta[1]
                 ELSE call.at + (IF access THEN AccessTTL ELSE RefreshTTL)
           /\ call.data_after = call.data

\* C16 (as claimed): for a TTL d > 0, decoding a token created with
\* expires_delta = d returns the subject and scope it was created with at
\* every time before d has elapsed and fails with the Expired error, an
\* error unlike the one for a malformed or wrongly signed token, at every
\* time after d has elapsed.
C16_RoundTripExpiry ==
    (call.fn = "decode" /\ "sub" \in DOMAIN call.data
       /\ call.expires_delta # <<>> /\ call.expires_delta[1] > 0)
    => LET d == call.expires_delta[1]
       IN  /\ call.decoded_at < call.at + d
                => /\ call.result = "ok"
                   /\ call.token.sub = call.data.sub
                   /\ call.token.scope \in {"access_token", "refresh_token"}
           /\ call.decoded_at > call.at + d
                => /\ call.result # "ok"
                   /\ call.result \notin {call.malformed, call.forged}

\* C17 (as claimed): a token made by create_email_token is refused as an
\* access token and as a refresh token: get_current_user and the
\* refresh_token handler's decode_refresh_token both answer it with an
\* authentication error (401).
C17_EmailTokenRejected ==
    [][\A i \in Tasks, t \in issued :
         (t.scope \notin {"access_token", "refresh_token"}
            /\ (get_current_user_cache(i, "me", t)
                  \/ refresh_token_decode(i, t)))
         => /\ resp'.token = t
            /\ resp'.status = 401
            /\ resp'.detail \in {credentials_detail,
                                 "Could not validate credentials",
                                 "Invalid scope for token"}]_vars

\* C18: get_current_user with a valid access token whose subject has
\* neither a cache entry nor a row in the user store fails with the 401
\* credentials error after one store lookup and leaves the cache as it was.
C18_UnknownPrincipal ==
    /\ [][\A i \in Tasks, t \in Presentable :
            (get_current_user_cache(i, "me", t)
               /\ access_token_check(t, now) = "ok"
               /\ ~cache_get(cache, t.sub).present)
            => /\ tasks'[i].pc = "querying"
               /\ tasks'[i].email = t.sub
               /\ cache' = cache]_vars
    /\ [][\A i \in Tasks :
            (get_current_user_query(i)
               /\ (tasks[i].email \in DOMAIN users
                     => ~users[tasks[i].email].present))
            => /\ resp'.status = 401
               /\ resp'.detail = credentials_detail
               /\ resp'.user = NoUser
               /\ resp'.lookups = 1
               /\ cache' = cache]_vars

\* An unexpired access token whose subject has no row was presented to
\* get_current_user and refused after the store lookup.
C18_Witness ==
    /\ resp.op = "me"
    /\ resp.token.scope = "access_token"
    /\ resp.token.exp >= now
    /\ resp.token.sub \notin DOMAIN users
    /\ resp.status = 401
    /\ resp.lookups = 1
    /\ resp.cache_reads = 1

\* C19 (as claimed): for all passwords p, get_password_hash(p) gives a hash
\* and verify_password(p, get_password_hash(p)) is true, and for all
\* p1 # p2, verify_password(p1, get_password_hash(p2)) is false.
C19_HashRoundTrip ==
    /\ call.fn = "get_password_hash" => ~call.raised
    /\ call.fn = "verify_password"
         => /\ ~call.raised
            /\ call.result <=> call.plain_password = call.password

\* C20: once a refresh_token call with a mismatching token has cleared a
\* principal's stored refresh token, and for as long as no refresh token
\* has been stored for the principal since, every refresh_token call that
\* reads the principal's row finds a mismatch, the one presenting the most
\* recently issued refresh token included; it signs nothing and fails.
C20_WholeLineageRevoked ==
    /\ [](\A e \in RevokedEmails : users[e].refresh_token = NoToken)
    /\ [][\A i \in Tasks :
            (refresh_token_read(i) /\ tasks[i].email \in RevokedEmails)
            => /\ tasks'[i].pc = "revoking"
               /\ tasks'[i].access_token = NoToken
               /\ tasks'[i].refresh_token = NoToken
               /\ issued' = issued]_vars
    /\ [][\A i \in Tasks :
            (refresh_token_commit(i) /\ tasks[i].pc = "revoking")
            => /\ resp'.status = 401
               /\ resp'.access_token = NoToken
               /\ resp'.refresh_token = NoToken
               /\ issued' = issued]_vars

\* The most recently issued refresh token, which was the stored one when a
\* mismatching call cleared it, was presented afterwards, still unexpired,
\* and refused.
C20_Witness ==
    /\ resp.op = "refresh"
    /\ resp.status = 401
    /\ resp.detail = "Invalid refresh token"
    /\ resp.was_revoked
    /\ resp.token.scope = "refresh_token"
    /\ resp.token.exp >= now
    /\ resp.token = lastIssued[resp.email]
    /\ [email |-> resp.email, cleared |-> resp.token] \in revoked

\* C21 (as claimed): every refresh_token call that rotates stores and
\* returns a refresh token that differs from the token it replaces, a
\* rotation in the clock second the old token was signed in included.
C21_RotationDistinct ==
    [][\A i \in Tasks :
         (refresh_token_commit(i) /\ tasks[i].pc = "rotating")
         => /\ resp'.refresh_token # tasks[i].token
            /\ users'[tasks[i].email].refresh_token # tasks[i].token]_vars

\* C22 (as claimed): every cache entry has an expiry in every state:
\* neither an interleaving of requests nor a request that fails between
\* cache.set and cache.expire leaves an entry that never expires.
C22_CacheEntriesExpire ==
    \A e \in Emails : cache[e].present => cache[e].expire_at # NoExpiry

\* C23 (as claimed): a validly signed, unexpired token that lacks the
\* scope claim is an authentication failure: get_current_user answers it
\* with the 401 credentials error and the refresh_token handler's
\* decode_refresh_token with a 401 error, never with another kind of error.
C23_MissingClaims401 ==
    [][\A i \in Tasks, t \in Presentable :
         (~JWTError(t, now) /\ t.scope = "")
         => /\ get_current_user_cache(i, "me", t)
                 => /\ resp'.token = t
                    /\ resp'.status = 401
                    /\ resp'.detail = credentials_detail
            /\ refresh_token_decode(i, t)
                 => /\ resp'.token = t
                    /\ resp'.status = 401]_vars

\* C23, sub claim (as claimed): the same for a token that lacks the sub
\* claim, decoded directly.
C23_MissingSub401 ==
    (call.fn = "decode" /\ "sub" \notin DOMAIN call.token
       /\ call.decoded_at <= call.token.exp)
    => call.result \in {"401", "jwt", "scope"}

\* C24 (as claimed): a refresh_token call with a validly signed, unexpired
\* refresh-scope token whose subject has no principal in the store fails
\* with 401 and changes no stored state.
C24_RefreshUnknownSubject ==
    [][\A i \in Tasks :
         (refresh_token_read(i) /\ ~row(i).present)
         => /\ resp'.token = tasks[i].token
            /\ resp'.status = 401
            /\ users' = users
            /\ cache' = cache
            /\ issued' = issued]_vars

\* C25 (as claimed): confirmed_email accepts only tokens made by
\* create_email_token: an access token or a refresh token issued for a
\* principal is answered with 422 and leaves that principal's confirmed
\* flag as it was.
C25_OnlyEmailTokensConfirm ==
    [][/\ \A i \in Tasks, t \in issued :
            (confirmed_email_decode(i, t)
               /\ t.scope \in {"access_token", "refresh_token"})
            => /\ resp'.token = t
               /\ resp'.status = 422
               /\ tasks' = tasks
       /\ \A i \in Tasks :
            (confirmed_email_commit(i)
               /\ tasks[i].token.scope \in {"access_token", "refresh_token"})
            => users'[tasks[i].email].confirmed
                 = users[tasks[i].email].confirmed]_vars

\* C26: confirmed_email with a token that decodes: for an existing,
\* unconfirmed principal it sets confirmed and answers 'Email confirmed';
\* for an existing, confirmed principal (a replay of the token) it leaves
\* the user store as it was and answers 'Your email is already confirmed';
\* for a subject without a principal it fails with 400 'Verification
\* error' and leaves the user store as it was.
C26_ConfirmIdempotent ==
    /\ [][\A i \in Tasks, t \in Presentable :
            (confirmed_email_decode(i, t)
               /\ get_email_from_token(t, now) = "ok")
            => /\ tasks'[i].pc = "decoded"
               /\ tasks'[i].email = t.sub
               /\ users' = users]_vars
    /\ [][\A i \in Tasks :
            confirmed_email_read(i)
            => /\ users' = users
               /\ ~row(i).present
                    => /\ resp'.status = 400
                       /\ resp'.detail = "Verification error"
               /\ (row(i).present /\ ~row(i).confirmed)
                    => /\ tasks'[i].pc = "confirming"
                       /\ resp' = resp
               /\ (row(i).present /\ row(i).confirmed)
                    => /\ resp'.status = 200
                       /\ resp'.detail
                            = "Your email is already confirmed"]_vars
    /\ [][\A i \in Tasks :
            (confirmed_email_query(i) /\ row(i).present)
            => /\ tasks'[i].pc = "assigned"
               /\ users' = users]_vars
    /\ [][\A i \in Tasks :
            confirmed_email_commit(i)
            => /\ resp'.status = 200
               /\ resp'.detail = "Email confirmed"
               /\ users' = [users EXCEPT
                              ![tasks[i].email].confirmed = TRUE]]_vars

\* The email token send_email signed was presented again after it had
\* confirmed the principal.
C26_Witness ==
    /\ resp.op = "confirm"
    /\ resp.status = 200
    /\ resp.detail = "Your email is already confirmed"
    /\ resp.token = create_email_token(resp.email, resp.token.iat)
    /\ resp.token.exp >= now
    /\ users[resp.email].confirmed

\* C27 (as claimed): a signup for an email that has a row fails with 409
\* 'Account already exists' and creates nothing; otherwise the request
\* creates one row that stores the hash of the password; and under every
\* interleaving of signup requests, two for the same email included, the
\* table holds at most one row per email.
C27_SignupUnique ==
    /\ [](\A r1 \in rows, r2 \in rows : r1.email = r2.email => r1 = r2)
    /\ [][\A i \in Tasks, e \in Emails \cup Strangers, p \in Passwords,
             salt \in Salts :
            signup_read(i, e, p, salt)
            => /\ rows' = rows
               /\ (\E r \in rows : r.email = e)
                    => /\ resp'.op = "signup"
                       /\ resp'.email = e
                       /\ resp'.status = 409
                       /\ resp'.detail = "Account already exists"
                       /\ tasks' = tasks
               /\ ~(\E r \in rows : r.email = e)
                    => /\ tasks'[i].pc = "checked"
                       /\ tasks'[i].password = get_password_hash(p, salt)]_vars
    /\ [][\A i \in Tasks :
            signup_commit(i)
            => IF \E r \in rows : r.email = tasks[i].email
               THEN /\ resp'.op = "signup"
                    /\ resp'.status = 409
                    /\ resp'.detail = "Account already exists"
                    /\ rows' = rows
               ELSE /\ tasks'[i].pc = "committed"
                    /\ \E r \in rows' :
                          /\ rows' = rows \cup {r}
                          /\ r \notin rows
                          /\ r.email = tasks[i].email
                          /\ r.password = tasks[i].password]_vars
    /\ [][\A i \in Tasks :
            signup_refresh(i)
            => /\ rows' = rows
               /\ resp'.status = 201
               /\ resp'.user.present
               /\ resp'.user.password = tasks[i].password]_vars

\* The principal-addressed contact operations and the one without a
\* principal.
ContactOps == {"get_contacts", "get_contact", "get_contacts_by_first_name",
               "get_contacts_by_last_name", "get_contact_by_email",
               "get_contacts_by_upcoming_birthday", "create_contact",
               "update_contact", "delete_contact"}

\* C28: contact isolation. Every contact a contacts route returns is owned
\* by the caller of that route, and a call leaves every contact owned by
\* another user in the table exactly as it was; this covers get_contacts,
\* get_contact, the by-name, by-surname and by-email lookups,
\* update_contact, delete_contact and get_contacts_by_upcoming_birthday.
C28_ContactIsolation ==
    /\ [](call.fn \in ContactOps
            => \A c \in call.result : c.user = call.user)
    /\ [][call'.fn \in ContactOps
            => { c \in contacts' : c.user # call'.user }
               = { c \in contacts : c.user # call'.user }]_vars

\* The (month, day) pairs of the dates today, today + 1, ..., today + 7.
within_week(now_date, birthday) ==
    \E k \in 0..7 : LET d == plus_days(now_date, k)
                    IN  d[2] = birthday[2] /\ d[3] = birthday[3]

\* C29: get_contacts_by_upcoming_birthday selects exactly the contacts whose
\* birthday (month, day) falls within the 7 days starting today: with the
\* whole result on one page, a contact of the table is in the result if
\* and only if its (month, day) lies between today and today + 7 days,
\* also when that interval crosses a month boundary or the year boundary.
C29_BirthdayWindowExact ==
    (call.fn = "get_contacts_by_upcoming_birthday" /\ call.offset = 0)
    => \A c \in contacts :
         c \in call.result <=> within_week(call.today, c.birthday)

\* C30: password_recovery. For an email with no principal it answers
\* "email not registered" and changes nothing. For a registered email it
\* schedules the reset-password email, replaces that principal's stored
\* password with the hash of a new password, leaves every other principal
\* and field as it was, and answers 200 without raising an error.
C30_PasswordRecovery ==
    [][\A e \in Emails \cup Strangers, pw \in Passwords, st \in Salts :
         password_recovery(e, pw, st)
         => IF ~get_user_by_email(users, e).present
            THEN /\ resp'.status = 200
                 /\ resp'.detail = "email not registered"
                 /\ resp'.mail = ""
                 /\ users' = users
            ELSE /\ resp'.status = 200
                 /\ resp'.mail = e
                 /\ users'[e].password # users[e].password
                 /\ \E p \in Passwords, s \in Salts :
                      users'[e].password = get_password_hash(p, s)
                 /\ users' = [users EXCEPT
                                ![e].password = users'[e].password]]_vars

====
